---- MODULE Spec2Model ----
(***************************************************************************)
(* Model of codex_douyin: the input-to-product resolver and asset fetcher  *)
(* of src/codex_douyin/douyin/product_parser.py.                           *)
(*                                                                         *)
(* Strings are sequences of tokens.  A token is a TLA+ string standing for *)
(* one lexeme of the text ("https://", "/", "product_id", "1", ...).  An   *)
(* Optional[str] is a sequence of length 0 (None) or 1 (the string).       *)
(* Non-ASCII characters are tokens named by code point ("U+FF0C" is the    *)
(* full-width comma, "U+FF01" the full-width exclamation mark, "U+201C"    *)
(* and "U+201D" the curly double quotes); "CJK" is any CJK letter.         *)
(***************************************************************************)
EXTENDS Integers, Sequences, FiniteSets, TLC

\* ---------------------------------------------------------------- bounds
MaxSegs   == 2      \* path segments of a generated URL
MaxParams == 2      \* query parameters of a generated URL
MaxTail   == 3      \* characters that follow the link in a generated share text
MaxText   == 2      \* characters of a generated input without a link
MaxItems  == 3      \* elements of a generated list of every kind of element
MaxRetries == 2     \* the retries argument of ImageDownloader (its default)
MaxList   == 1      \* elements of a generated image list
MaxDim    == 4      \* width and height of an image handed to the enhancer
MaxQuarters == 12   \* the upscale factor, in quarters (0, 0.25, ..., 3)
MaxCap    == 6      \* max_size of the enhancer
GridW     == 3      \* width of an image handed to the background remover
GridH     == 2      \* its height
MaxMarked == 2      \* pixels the segmentation does not call sure background
MaxDilation == 2    \* dilation_iterations of the background remover

\* ------------------------------------------------------- string helpers
None == <<>>
Some(v) == <<v>>

Digits == {"1", "2"}
Whitespace == {" "}

\* str.isdigit(): non-empty and every character a digit
IsDigit(s) == Len(s) > 0 /\ \A i \in 1..Len(s) : s[i] \in Digits

\* str.lower(), token by token
LowerTok(t) ==
  CASE t = "ID" -> "id"
    [] t = "Goods" -> "goods"
    [] t = "JPEG" -> "jpeg"
    [] OTHER -> t

Lower(s) == [i \in 1..Len(s) |-> LowerTok(s[i])]

\* index of the first element of s at or after position from that lies in S
\* (Len(s)+1 when there is none)
FirstIn(s, from, S) ==
  IF \E i \in from..Len(s) : s[i] \in S
  THEN CHOOSE i \in from..Len(s) : s[i] \in S /\ \A j \in from..(i-1) : s[j] \notin S
  ELSE Len(s) + 1

\* index of the first element at or after from that is NOT in S
FirstNotIn(s, from, S) ==
  IF \E i \in from..Len(s) : s[i] \notin S
  THEN CHOOSE i \in from..Len(s) : s[i] \notin S /\ \A j \in from..(i-1) : s[j] \in S
  ELSE Len(s) + 1

\* index of the last element that is NOT in S (0 when there is none)
LastNotIn(s, S) ==
  IF \E i \in 1..Len(s) : s[i] \notin S
  THEN CHOOSE i \in 1..Len(s) : s[i] \notin S /\ \A j \in (i+1)..Len(s) : s[j] \in S
  ELSE 0

\* str.strip(chars) / str.rstrip(chars)
StripChars(s, S) == SubSeq(s, FirstNotIn(s, 1, S), LastNotIn(s, S))
RStripChars(s, S) == SubSeq(s, 1, LastNotIn(s, S))
Strip(s) == StripChars(s, Whitespace)

\* str.split(sep)
RECURSIVE Split(_, _)
Split(s, sep) ==
  LET k == FirstIn(s, 1, {sep})
  IN  IF k > Len(s) THEN <<s>>
      ELSE <<SubSeq(s, 1, k - 1)>> \o Split(SubSeq(s, k + 1, Len(s)), sep)

\* the run of digits (\d+) starting at position i
DigitRun(s, i) == SubSeq(s, i, FirstNotIn(s, i, Digits) - 1)

RECURSIVE Flatten(_)
Flatten(ss) == IF ss = <<>> THEN <<>> ELSE Head(ss) \o Flatten(Tail(ss))

\* ------------------------------------------- urllib.parse (as used here)
\* urlparse(url): netloc ends at the first of / ? #, the fragment is split
\* off at the first #, the query at the first ?.
UrlParse(url) ==
  LET hasScheme == Len(url) > 0 /\ url[1] = "https://"
      rest      == IF hasScheme THEN Tail(url) ELSE url
      nEnd      == IF hasScheme THEN FirstIn(rest, 1, {"/", "?", "#"}) ELSE 1
      after     == SubSeq(rest, nEnd, Len(rest))
      fragAt    == FirstIn(after, 1, {"#"})
      noFrag    == SubSeq(after, 1, fragAt - 1)
      qAt       == FirstIn(noFrag, 1, {"?"})
  IN  [netloc   |-> SubSeq(rest, 1, nEnd - 1),
       path     |-> SubSeq(noFrag, 1, qAt - 1),
       query    |-> SubSeq(noFrag, qAt + 1, Len(noFrag)),
       fragment |-> SubSeq(after, fragAt + 1, Len(after))]

\* parse_qsl(query): pieces between &, split at the first =; pieces without
\* = and pieces with a blank value are dropped (keep_blank_values=False)
QueryPair(piece) ==
  LET e == FirstIn(piece, 1, {"="})
  IN  [k |-> SubSeq(piece, 1, e - 1), v |-> SubSeq(piece, e + 1, Len(piece))]

ParseQsl(query) ==
  LET pieces == Split(query, "&")
      kept   == SelectSeq(pieces, LAMBDA p : Len(QueryPair(p).v) > 0)
  IN  [i \in 1..Len(kept) |-> QueryPair(kept[i])]

\* ------------------------------------------------- product id extraction
QueryKeys == <<"product_id", "goods_id", "item_id", "id">>

\* parse_qs groups the pairs in a dict: keys in order of first occurrence,
\* the values of one key in order of occurrence
DictRank(pairs, i) ==
  LET first == CHOOSE j \in 1..i : pairs[j].k = pairs[i].k
                                   /\ \A h \in 1..(j-1) : pairs[h].k # pairs[i].k
  IN  first * (Len(pairs) + 1) + i

\* the inner two loops of _extract_product_id_from_query for one wanted key
QueryValueFor(pairs, key) ==
  LET hits == {i \in 1..Len(pairs) : Lower(pairs[i].k) = <<key>> /\ IsDigit(pairs[i].v)}
  IN  IF hits = {} THEN None
      ELSE LET best == CHOOSE i \in hits :
                         \A j \in hits : DictRank(pairs, i) <= DictRank(pairs, j)
           IN  Some(pairs[best].v)

RECURSIVE QueryScan(_, _)
QueryScan(pairs, n) ==
  IF n > Len(QueryKeys) THEN None
  ELSE IF QueryValueFor(pairs, QueryKeys[n]) # None
       THEN QueryValueFor(pairs, QueryKeys[n])
       ELSE QueryScan(pairs, n + 1)

_extract_product_id_from_query(url) ==
  LET pairs == ParseQsl(UrlParse(url).query)
  IN  IF pairs = <<>> THEN None ELSE QueryScan(pairs, 1)

\* _PRODUCT_ID_PATTERNS: keyword, separator, then (\d+); IGNORECASE
_PRODUCT_ID_PATTERNS ==
  << <<"product", "/">>, <<"goods", "/">>, <<"item", "/">>,
     <<"product_id", "=">>, <<"goods_id", "=">>, <<"item_id", "=">> >>

\* (mutant) the group stops after one digit
PatternSearch_OneDigit(pat, url) ==
  LET hits == {i \in 1..(Len(url) - 2) :
                 LowerTok(url[i]) = pat[1] /\ url[i+1] = pat[2] /\ url[i+2] \in Digits}
  IN  IF hits = {} THEN None
      ELSE LET i == CHOOSE h \in hits : \A g \in hits : h <= g
           IN  Some(<<url[i + 2]>>)

\* pattern.search(url): leftmost match, group(1) is the greedy digit run
PatternSearch(pat, url) ==
  LET hits == {i \in 1..(Len(url) - 2) :
                 LowerTok(url[i]) = pat[1] /\ url[i+1] = pat[2] /\ url[i+2] \in Digits}
  IN  IF hits = {} THEN None
      ELSE LET i == CHOOSE h \in hits : \A g \in hits : h <= g
           IN  Some(DigitRun(url, i + 2))

RECURSIVE PatternScan(_, _, _)
PatternScan(pats, url, n) ==
  IF n > Len(pats) THEN None
  ELSE IF PatternSearch(pats[n], url) # None THEN PatternSearch(pats[n], url)
       ELSE PatternScan(pats, url, n + 1)

_extract_product_id(url) == PatternScan(_PRODUCT_ID_PATTERNS, url, 1)

\* the part of _determine_product_id that needs no request: strategy (1),
\* then strategy (2); source "fetch" means the chain goes on to the page GET
LocalStrategies(url) ==
  IF _extract_product_id_from_query(url) # None
  THEN [id |-> _extract_product_id_from_query(url), source |-> "query"]
  ELSE IF _extract_product_id(url) # None
       THEN [id |-> _extract_product_id(url), source |-> "url"]
       ELSE [id |-> None, source |-> "fetch"]

\* ------------------------------------------------------ link normalizer
\* _TRAILING_PUNCTUATION (full-width and ASCII) and the quote characters of
\* _normalize_url, as far as the model's alphabet has them
_TRAILING_PUNCTUATION == {"U+FF0C", "U+FF01", "U+3002", ".", ",", "!", "U+201D", "\""}
QuoteChars == {"\"", "U+201C", "U+201D"}

\* url.strip().strip(quotes).rstrip(_TRAILING_PUNCTUATION)
_normalize_url(url) ==
  RStripChars(StripChars(Strip(url), QuoteChars), _TRAILING_PUNCTUATION)

\* _URL_PATTERN.search(text): the leftmost https?:// followed by at least
\* one non-whitespace character, up to the next whitespace
UrlPatternSearch(text) ==
  LET hits == {i \in 1..(Len(text) - 1) :
                 text[i] = "https://" /\ text[i + 1] \notin Whitespace}
  IN  IF hits = {} THEN None
      ELSE LET i == CHOOSE h \in hits : \A g \in hits : h <= g
           IN  Some(SubSeq(text, i, FirstIn(text, i, Whitespace) - 1))

\* the messages of the ValueErrors of parse_input_to_product, cut into
\* phrases
MsgNonEmpty == <<"Input must be a ", "non-empty string", " containing a Douyin ", "link">>
MsgNoLink == <<"Unable to locate a http/https ", "link", " within the provided input">>
MsgNormalize == <<"Unable to normalize extracted URL from input">>
NoError == <<>>

\* (mutant) the blank-input check is missing
ParseFront_NoBlankCheck(raw) ==
  IF UrlPatternSearch(raw) = None THEN [err |-> MsgNoLink, url |-> <<>>]
  ELSE [err |-> NoError, url |-> _normalize_url(UrlPatternSearch(raw)[1])]

\* parse_input_to_product up to the normalized URL (no request is made in
\* this part)
ParseFront(raw) ==
  IF Strip(raw) = <<>> THEN [err |-> MsgNonEmpty, url |-> <<>>]
  ELSE IF UrlPatternSearch(raw) = None THEN [err |-> MsgNoLink, url |-> <<>>]
  ELSE IF _normalize_url(UrlPatternSearch(raw)[1]) = <<>>
       THEN [err |-> MsgNormalize, url |-> <<>>]
       ELSE [err |-> NoError, url |-> _normalize_url(UrlPatternSearch(raw)[1])]

\* ------------------------------------------------------------ URL inputs
\* A generated URL is https://host, up to MaxSegs path segments and up to
\* MaxParams query parameters.
SegSet == { <<"product">>, <<"Goods">>, <<"index.html">>,
            <<"1", "2">>, <<"1", "x">> }
ParamKeys == { <<"product_id">>, <<"goods_id">>, <<"id">>, <<"ID">> }
ParamVals == { <<"2", "1">>, <<"2", "x">> }

SeqsUpTo(S, n) == UNION {[1..m -> S] : m \in 0..n}

RenderPath(segs) == Flatten([i \in 1..Len(segs) |-> <<"/">> \o segs[i]])
RenderQuery(params) ==
  IF params = <<>> THEN <<>>
  ELSE <<"?">> \o Flatten([i \in 1..Len(params) |->
            (IF i = 1 THEN <<>> ELSE <<"&">>) \o params[i].k \o <<"=">> \o params[i].v])
RenderUrl(segs, params) == <<"https://", "host">> \o RenderPath(segs) \o RenderQuery(params)

VARIABLES urlPc, urlSegs, urlParams, urlStr, urlId, urlSource

urlVars == <<urlPc, urlSegs, urlParams, urlStr, urlId, urlSource>>

UrlIdle ==
  /\ urlPc = "off" /\ urlSegs = <<>> /\ urlParams = <<>>
  /\ urlStr = <<>> /\ urlId = None /\ urlSource = "none"

\* ----------------------------------------------------------- share texts
\* A generated share text is a lead, a link and a tail of up to MaxTail
\* characters.
TextLeads == { <<>>, <<"CJK", " ">>, <<"CJK">>, <<"U+201C">> }
TextLinks == { <<"https://", "v.douyin.com", "/", "abc", "/">>,
               <<"https://", "host", "/", "product", "/", "1", "2">>,
               <<"https://", "host", "/", "x", "?", "id", "=", "2">> }
TailChars == {"U+FF0C", "U+FF01", ".", "U+201D", "CJK", " "}

VARIABLES txtPc, txtLead, txtLink, txtTail, txtRaw, txtUrl, txtErr

txtVars == <<txtPc, txtLead, txtLink, txtTail, txtRaw, txtUrl, txtErr>>

TxtIdle ==
  /\ txtPc = "off" /\ txtLead = <<>> /\ txtLink = <<>> /\ txtTail = <<>>
  /\ txtRaw = <<>> /\ txtUrl = <<>> /\ txtErr = NoError

\* ------------------------------------------------------- credentials
Truthy(opt) == opt # None /\ opt[1] # <<>>

\* _normalize_cookie
_normalize_cookie(value) ==
  IF value = None THEN None
  ELSE IF Strip(value[1]) = <<>> THEN None ELSE Some(Strip(value[1]))

\* _effective_cookies
_effective_cookies(selfCookies, override) ==
  IF _normalize_cookie(override) # None THEN _normalize_cookie(override) ELSE selfCookies

\* the environment: the DY_COOKIES variable and the text after "=" on the
\* first DY_COOKIES line of ./.env (None: no variable / no readable file or line)
DotenvValue(raw) == StripChars(StripChars(Strip(raw), {"\""}), {"'"})

\* _load_cookies_from_env
_load_cookies_from_env(e) ==
  IF Truthy(_normalize_cookie(e.var)) THEN _normalize_cookie(e.var)
  ELSE IF e.file = None THEN None
       ELSE _normalize_cookie(Some(DotenvValue(e.file[1])))

\* DouyinProductParser.__init__: the value of self.cookies
InitCookies(cookies, e) ==
  IF cookies # None THEN _normalize_cookie(cookies) ELSE _load_cookies_from_env(e)

\* cli._load_cookies
_load_cookies(explicit, e) ==
  IF Truthy(explicit)
  THEN (IF Strip(explicit[1]) = <<>> THEN None ELSE Some(Strip(explicit[1])))
  ELSE IF Truthy(e.var) /\ Strip(e.var[1]) # <<>> THEN Some(Strip(e.var[1]))
  ELSE IF e.file = None THEN None
       ELSE (IF DotenvValue(e.file[1]) = <<>> THEN None ELSE Some(DotenvValue(e.file[1])))

user_agent == <<"Mozilla/5.0">>
Referer == <<"https://", "www.douyin.com", "/">>

\* (mutant) the Cookie header is never set
_build_headers_NoCookie(selfCookies, extra, cookies) ==
  [UserAgent |-> Some(user_agent), Referer |-> extra, Cookie |-> None]

\* _build_headers: a header that is not in the dict is None
_build_headers(selfCookies, extra, cookies) ==
  [UserAgent |-> Some(user_agent),
   Referer   |-> extra,
   Cookie    |-> IF Truthy(_effective_cookies(selfCookies, cookies))
                 THEN _effective_cookies(selfCookies, cookies) ELSE None]

\* ------------------------------------------------------------- resolver
\* _is_short_link
_is_short_link(url) ==
  LET hostname == Lower(UrlParse(url).netloc)
  IN  Len(hostname) > 0 /\ hostname[Len(hostname)] = "v.douyin.com"

\* _PRODUCT_ID_HTML_PATTERNS: an opening marker, (\d+), a closing quote
_PRODUCT_ID_HTML_PATTERNS ==
  <<"\"product_id\":\"", "\"productId\":\"", "data-product-id=\"", "\"goods_id\":\"">>

HtmlSearch(marker, html) ==
  LET hits == {i \in 1..(Len(html) - 2) :
                 /\ html[i] = marker /\ html[i + 1] \in Digits
                 /\ FirstNotIn(html, i + 1, Digits) <= Len(html)
                 /\ html[FirstNotIn(html, i + 1, Digits)] = "\""}
  IN  IF hits = {} THEN None
      ELSE LET i == CHOOSE h \in hits : \A g \in hits : h <= g
           IN  Some(DigitRun(html, i + 1))

RECURSIVE HtmlScan(_, _)
HtmlScan(html, n) ==
  IF n > Len(_PRODUCT_ID_HTML_PATTERNS) THEN None
  ELSE IF HtmlSearch(_PRODUCT_ID_HTML_PATTERNS[n], html) # None
       THEN HtmlSearch(_PRODUCT_ID_HTML_PATTERNS[n], html)
       ELSE HtmlScan(html, n + 1)

_extract_product_id_from_html(html) == HtmlScan(html, 1)

\* (mutant) the body markers are looked at before the landed URL
PageStrategies_HtmlFirst(url, html) ==
  IF _extract_product_id_from_html(html) # None
  THEN [id |-> _extract_product_id_from_html(html), source |-> "html"]
  ELSE IF LocalStrategies(url).source # "fetch" THEN LocalStrategies(url)
       ELSE [id |-> None, source |-> "none"]

\* _determine_product_id after the page GET has answered
PageStrategies(url, html) ==
  IF LocalStrategies(url).source # "fetch" THEN LocalStrategies(url)
  ELSE IF _extract_product_id_from_html(html) # None
       THEN [id |-> _extract_product_id_from_html(html), source |-> "html"]
       ELSE [id |-> None, source |-> "none"]

\* the characters \s matches and str.strip() removes
HtmlSpace == {" ", "\n", "\t"}
SnippetLen == 300

\* re.sub(r"\s+", " ", s): every run of whitespace becomes one space
CollapseSpace(s) ==
  LET kept == SelectSeq([i \in 1..Len(s) |-> i],
                        LAMBDA i : \/ s[i] \notin HtmlSpace
                                   \/ i = 1
                                   \/ s[i - 1] \notin HtmlSpace)
  IN  [k \in 1..Len(kept) |-> IF s[kept[k]] \in HtmlSpace THEN " " ELSE s[kept[k]]]

\* html[:300]
HeadOf(html) == SubSeq(html, 1, IF Len(html) < SnippetLen THEN Len(html) ELSE SnippetLen)

_format_html_snippet(html) == StripChars(CollapseSpace(HeadOf(html)), HtmlSpace)

\* ------------------------------------------------------- asset fetcher
endpoints ==
  << <<"https://", "www.douyin.com", "/aweme/v1/web/product/detail/">>,
     <<"https://", "ec.snssdk.com", "/product/goods/detail/v2">> >>
params_variants == <<None, Some(<<"detail">>)>>

NumPairs == Len(endpoints) * Len(params_variants)

\* the n-th (endpoint, params) pair of the nested loops of _fetch_product_payload
PairEndpoint(n) == endpoints[((n - 1) \div Len(params_variants)) + 1]
PairScene(n) == params_variants[((n - 1) % Len(params_variants)) + 1]

NoParams == [product_id |-> None, scene |-> None]

\* --------------------------------------------------- image descriptors
\* A JSON list value read with dict.get is None (key missing or null) or
\* Some(list).  A list element is a record: kind "str" (the bare string s),
\* "dict" (with the keys below; a missing key is None) or "other".  An
\* entry of url_list is Some(string), or None for a non-string entry;
\* url_list_iterable is FALSE when the value of url_list is a true scalar
\* (a number, true) instead of a list.  An id is
\* [t |-> "none" | "str" | "int", v |-> its text].  format and file_type
\* are Optional strings.
NoId == [t |-> "none", v |-> <<>>]
StrItem(u) ==
  [kind |-> "str", s |-> u, url |-> None, origin_url |-> None, image_url |-> None,
   url_list |-> None, url_list_iterable |-> TRUE, id |-> NoId,
   format |-> None, file_type |-> None]
DictItem(u, o, i, l, d) ==
  [kind |-> "dict", s |-> <<>>, url |-> u, origin_url |-> o, image_url |-> i,
   url_list |-> l, url_list_iterable |-> TRUE, id |-> d,
   format |-> None, file_type |-> None]
OtherItem ==
  [kind |-> "other", s |-> <<>>, url |-> None, origin_url |-> None, image_url |-> None,
   url_list |-> None, url_list_iterable |-> TRUE, id |-> NoId,
   format |-> None, file_type |-> None]
\* an object element with the keys format and file_type
WithFormat(item, f, t) == [item EXCEPT !.format = f, !.file_type = t]
\* an object element whose url_list is a true scalar
ScalarUrlList(d) ==
  [DictItem(None, None, None, Some(<<>>), d) EXCEPT !.url_list_iterable = FALSE]

\* Python's "a or b" on Optional strings and on list values
OrElse(a, b) == IF Truthy(a) THEN a ELSE b

\* next((u for u in url_list if isinstance(u, str)), None)
FirstString(entries) ==
  LET k == FirstNotIn(entries, 1, {None})
  IN  IF k > Len(entries) THEN None ELSE entries[k]

\* item.get("url") or item.get("origin_url") or item.get("image_url")
DirectUrl(item) == OrElse(OrElse(item.url, item.origin_url), item.image_url)

\* the url of one element (lines 332-339)
ItemUrl(item) ==
  IF item.kind = "str" THEN Some(item.s)
  ELSE IF ~Truthy(DirectUrl(item)) /\ item.url_list # None
       THEN FirstString(item.url_list[1])
       ELSE DirectUrl(item)

\* iterating a url_list that is not iterable raises TypeError (line 339)
ItemRaises(item) ==
  /\ item.kind = "dict"
  /\ ~Truthy(DirectUrl(item))
  /\ item.url_list # None
  /\ ~item.url_list_iterable

\* fmt if isinstance(fmt, str) else None (lines 334, 342, 351)
ItemFormat(item) ==
  IF item.kind = "str" THEN None ELSE OrElse(item.format, item.file_type)

IndexText(n) == <<(<<"0", "1", "2", "3", "4", "5", "6", "7", "8", "9">>)[n + 1]>>

IdTruthy(d) == (d.t = "str" /\ d.v # <<>>) \/ (d.t = "int" /\ d.v # <<"0">>)

\* (mutant) the id of an object element is never replaced by the index
ItemId_NoDefault(item, index) ==
  IF item.kind = "dict" THEN item.id.v ELSE IndexText(index)

\* str(asset_id or index) (lines 345-347)
ItemId(item, index) ==
  IF item.kind = "dict" /\ IdTruthy(item.id) THEN item.id.v ELSE IndexText(index)

\* the loop over one list (lines 329-352); n is the 1-based position
RECURSIVE ListAssets(_, _)
ListAssets(images, n) ==
  IF n > Len(images) THEN <<>>
  ELSE IF images[n].kind = "other" \/ ~Truthy(ItemUrl(images[n]))
       THEN ListAssets(images, n + 1)
       ELSE <<[id |-> ItemId(images[n], n - 1), url |-> ItemUrl(images[n])[1],
               format |-> ItemFormat(images[n])]>>
            \o ListAssets(images, n + 1)

\* the loop over one list raises when one of its elements does
ListRaises(images) == \E n \in 1..Len(images) : ItemRaises(images[n])

\* A payload is [isdict, product, data, image_list]; product and data are
\* [isdict, a, b]: isdict is FALSE when the key is missing or its value is
\* not a dict, and a, b are the values of the two keys read from it
\* (image/images, images/image_list).
\* (mutant) only the first candidate list is scanned
CandidateAssets_FirstOnly(lists) ==
  LET found == SelectSeq(lists, LAMBDA l : Truthy(l))
  IN  IF found = <<>> THEN <<>> ELSE ListAssets(found[1][1], 1)

\* the loop over candidate_lists (lines 326-328)
CandidateAssets(lists) ==
  Flatten([i \in 1..Len(lists) |->
             IF Truthy(lists[i]) THEN ListAssets(lists[i][1], 1) ELSE <<>>])

\* candidate_lists (lines 313-324)
candidate_lists(payload) ==
  IF ~payload.isdict THEN <<>>
  ELSE (IF payload.product.isdict
        THEN <<OrElse(payload.product.a, payload.product.b)>> ELSE <<>>)
       \o (IF payload.data.isdict
           THEN <<OrElse(payload.data.a, payload.data.b)>> ELSE <<>>)
       \o (IF payload.image_list # None THEN <<payload.image_list>> ELSE <<>>)

_extract_images(payload) == CandidateAssets(candidate_lists(payload))

\* list(self._extract_images(payload)) raises instead of returning
ExtractRaises(payload) ==
  \E i \in 1..Len(candidate_lists(payload)) :
    /\ Truthy(candidate_lists(payload)[i])
    /\ ListRaises(candidate_lists(payload)[i][1])

NoSub == [isdict |-> FALSE, a |-> None, b |-> None]
SubDict(a, b) == [isdict |-> TRUE, a |-> a, b |-> b]
EmptyPayload == [isdict |-> TRUE, product |-> NoSub, data |-> NoSub, image_list |-> None]

\* ------------------------------------------------------ resolver runs
\* exceptions and results of a call
Running == [kind |-> "running", type |-> "", msg |-> <<>>, cause |-> ""]
Returned == [kind |-> "return", type |-> "", msg |-> <<>>, cause |-> ""]
Raised(type, msg, cause) == [kind |-> "raise", type |-> type, msg |-> msg, cause |-> cause]

MsgNoProductId == <<"Unable to determine product id from URL: ">>
MsgSnippet == <<"\nHTML snippet: ">>
MsgNoImages == <<"No images detected in Douyin response">>
MsgFetchFailed == <<"Unable to fetch Douyin product detail">>

\* the inputs of a run
TextChars == {" ", "CJK", "1", "https://"}
ShortLink == <<"https://", "v.douyin.com", "/", "abc", "/">>
RawInputs ==
  SeqsUpTo(TextChars, MaxText)
  \cup { <<"1", "2">>, <<" ", "1", "2", " ">>,
         <<"CJK", " ">> \o ShortLink,
         <<"CJK", " ">> \o ShortLink \o <<"U+FF0C", "CJK", "U+FF01">>,
         <<"https://", "host", "/", "product", "/", "1", "2">>,
         <<"https://", "host", "/", "x", "?", "id", "=", "2">>,
         <<"https://", "host", "/", "index.html">> }
CookieArgs == {None, Some(<<" ">>), Some(<<" ", "a">>)}
CtorArgs == {None, Some(<<" ">>), Some(<<"c">>)}
Environments ==
  { [var |-> None, file |-> None],
    [var |-> Some(<<"e">>), file |-> None],
    [var |-> Some(<<" ">>), file |-> Some(<<" ", "\"", "f", "\"">>)] }

\* what the network can answer
LandedUrls ==
  { <<"https://", "host", "/", "item", "/", "1", "2">>,
    <<"https://", "host", "/", "index.html">> }
PageRedirects == { <<"https://", "host", "/", "goods", "/", "2">> }
\* a page is a sequence of characters (a body marker is one token); the
\* long page has whitespace inside, at its start and where html[:300] cuts
Pad(n) == [i \in 1..n |-> "x"]
LongPage == <<"\n">> \o Pad(100) \o <<" ", "\t">> \o Pad(195) \o <<" ", " ", "\n", "y">>
Htmls ==
  { <<"<", "p", ">">>,
    <<" ", "<", "p", ">", " ", "\n", "a", "\t">>,
    LongPage,
    <<"<div ", "data-product-id=\"", "1", "2", "\"", ">">>,
    <<"\"goods_id\":\"", "2", "\"", "\"productId\":\"", "1", "\"">> }
HttpFailures == {"status", "transport"}

Image1 == <<"https://", "img", "/", "1">>
Image2 == <<"https://", "img", "/", "2">>
MetaPayloads ==
  { EmptyPayload,
    [EmptyPayload EXCEPT !.product = SubDict(None, Some(<<StrItem(Image1), StrItem(Image2)>>))],
    [EmptyPayload EXCEPT !.data = SubDict(Some(<<StrItem(Image1)>>), Some(<<StrItem(Image2)>>))],
    [EmptyPayload EXCEPT !.image_list = Some(<<StrItem(Image1), ScalarUrlList(NoId)>>)] }

VARIABLES
  pc,               \* "idle", "await_redirect", "await_page", "await_meta", "done"
  entry,            \* the public entry point that was called
  raw_input,        \* its input text
  dry_run,          \* args.dry_run (command line only)
  cookies_arg,      \* its cookies argument (args.cookies on the command line)
  client_given,     \* parse_input_to_product got a client from its caller
  client_open,      \* the client used by parse_input_to_product is open
  response_url,     \* str(response.url) of the latest redirect or page answer
  follow_redirects, \* that client follows redirects (True for the one it creates)
  ctor_cookies,     \* the cookies argument of __init__
  env,              \* the environment
  self_cookies,     \* self.cookies
  parse_cookies,    \* the cookies argument of parse_input_to_product
  fetch_cookies,    \* the cookies argument of fetch_product_assets_from_parsed
  normalized_url, det_url, final_url, product_id, source, html,
  requests,         \* the GETs issued so far
  responses,        \* what the network answered to them (ok or failed)
  last_response,    \* the latest answer in full
  exit_code,        \* the exit code of main() (command line only)
  attempt,          \* the pair _fetch_product_payload is at (0: not started)
  last_error, payload, assets, outcome

inVars == <<entry, raw_input, dry_run, cookies_arg, client_given, follow_redirects,
           parse_cookies, normalized_url>>
ctorVars == <<ctor_cookies, env, self_cookies>>
parseVars == <<det_url, final_url, product_id, source, html, client_open>>
fetchVars == <<fetch_cookies, attempt, last_error, payload, assets>>
netVars == <<pc, requests, responses, last_response, outcome, exit_code>>
mainVars == <<inVars, ctorVars, parseVars, fetchVars, netVars, response_url>>

MainIdle ==
  /\ pc = "off" /\ entry = "none" /\ raw_input = <<>> /\ dry_run = FALSE
  /\ cookies_arg = None /\ client_given = FALSE /\ client_open = FALSE
  /\ follow_redirects = FALSE /\ response_url = <<>>
  /\ ctor_cookies = None /\ env = [var |-> None, file |-> None] /\ self_cookies = None
  /\ parse_cookies = None /\ fetch_cookies = None
  /\ normalized_url = <<>> /\ det_url = None /\ final_url = <<>> /\ product_id = None
  /\ source = "none" /\ html = <<>> /\ requests = <<>> /\ responses = <<>>
  /\ last_response = "none" /\ exit_code = None
  /\ attempt = 0 /\ last_error = "none" /\ payload = None /\ assets = <<>>
  /\ outcome = Running

\* ---------------------------------------------------- generated payloads
\* A generated payload has, at each of the five paths, no list, an empty
\* list or a list of up to MaxList elements.
ExItems == { StrItem(Image1), DictItem(None, None, None, Some(<<Some(Image2)>>), NoId) }
ExLists == {None} \cup {Some(l) : l \in SeqsUpTo(ExItems, MaxList)}
ExSubs == {NoSub} \cup {SubDict(a, b) : a \in ExLists, b \in ExLists}
ExPayloads ==
  {[isdict |-> TRUE, product |-> p, data |-> d, image_list |-> l] :
     p \in ExSubs, d \in ExSubs, l \in ExLists}
  \cup {[EmptyPayload EXCEPT !.isdict = FALSE]}

\* A generated list has up to MaxItems elements of every kind the loop
\* over a list tells apart.
ListItems ==
  { StrItem(Image1), StrItem(<<>>), OtherItem,
    DictItem(Some(Image1), Some(Image2), None, None, NoId),
    DictItem(Some(<<>>), Some(Image2), None, None, [t |-> "str", v |-> <<>>]),
    DictItem(None, None, Some(Image2), Some(<<Some(Image1)>>), [t |-> "str", v |-> <<"a">>]),
    DictItem(None, None, None, Some(<<None, Some(Image2)>>), [t |-> "int", v |-> <<"0">>]),
    DictItem(None, None, None, Some(<<Some(<<>>), Some(Image2)>>), NoId),
    DictItem(None, None, None, None, [t |-> "int", v |-> <<"7">>]),
    WithFormat(DictItem(Some(Image2), None, None, None, NoId), None, Some(<<"JPEG">>)),
    ScalarUrlList(NoId) }
ListPayloads ==
  {[EmptyPayload EXCEPT !.image_list = Some(l)] : l \in SeqsUpTo(ListItems, MaxItems)}

VARIABLES exPc, exPayload, exAssets

exVars == <<exPc, exPayload, exAssets>>

ExIdle == exPc = "off" /\ exPayload = EmptyPayload /\ exAssets = <<>>

\* ------------------------------------------------- downloader, pipeline
\* A ProductAsset is [id, url, format] (width and height are not used by
\* the downloader or the pipeline).  A file path is a string; the cache
\* directory and the output directory are different directories.
Sha1(url) == <<"sha1(">> \o url \o <<")">>

\* (mutant) what follows a "?" is kept
Extension_NoSplit(asset) ==
  Lower(IF Truthy(asset.format) THEN asset.format[1] ELSE <<"png">>)

\* (asset.format or "png").lower().split("?")[0]
Extension(asset) ==
  Split(Lower(IF Truthy(asset.format) THEN asset.format[1] ELSE <<"png">>), "?")[1]

\* ImageDownloader._resolve_cache_path
_resolve_cache_path(cacheDir, asset) ==
  IF ~cacheDir THEN None
  ELSE Some(asset.id \o <<"_">> \o Sha1(asset.url) \o <<".">> \o Extension(asset))

\* (mutant) the cache is never looked at
CacheHit_Never(target, files) == FALSE

\* target_path is not None and target_path.exists()
CacheHit(target, files) == target # None /\ target[1] \in files

\* (mutant) one attempt less
MoreAttempts_OneLess(n, r) == n < r

\* range(self.retries + 1) has an attempt after the n-th
MoreAttempts(n, r) == n < r + 1

\* (mutant) the other cache files are gone after a save
AfterSave_OnlyLatest(files, target) == {target[1]}

\* image.save(target_path): the cache directory afterwards (a save that
\* fails leaves no file and is a failed attempt)
AfterSave(files, target) == files \cup {target[1]}

\* (mutant) the image is enhanced before its background is removed
ProcessSteps_EnhanceFirst == <<"enhance", "extract", "persist">>

\* the steps of process_assets on one downloaded image, in order
ProcessSteps == <<"extract", "enhance", "persist">>

\* _store_image: the output file of an asset
OutputFile(asset) == asset.id \o <<".png">>

\* the output directory is a set of files [path, by, whole]: by is the
\* position in the batch of the asset whose image was saved there last,
\* whole is FALSE when that save broke off.  image.save(target) opens the
\* file for writing, which empties a file that is already there
AfterStore(files, path, k) ==
  {r \in files : r.path # path} \cup {[path |-> path, by |-> k, whole |-> TRUE]}

\* image.save(target) raises: a file that the save has created is removed
\* again, a file that was there before is left as far as it was written
AfterFailedStore(files, path, k) ==
  IF \E r \in files : r.path = path
  THEN {r \in files : r.path # path} \cup {[path |-> path, by |-> k, whole |-> FALSE]}
  ELSE files

\* what a step of the loop body raises when it fails
StepErrType(step) ==
  CASE step = "extract" -> "cv2.error"
    [] step = "enhance" -> "ValueError"
    [] step = "persist" -> "OSError"

MsgDownload == <<"Unable to download asset">>
MsgOutputDir == <<"output_dir must be set to store processed images">>
DownloadErrors == {"status", "decode", "transport"}
DownloadErrType(f) ==
  CASE f = "status" -> "HTTPStatusError"
    [] f = "decode" -> "UnidentifiedImageError"
    [] f = "transport" -> "TransportError"
    [] f = "save" -> "OSError"

\* (mutant) an error of image.save leaves the attempt loop
CaughtByLoop_NotSave(f) == f # "save"

\* except Exception (line 51): the errors of an attempt that the loop
\* catches and counts as a failed attempt
CaughtByLoop(f) == TRUE

\* the payloads whose descriptors are handed to process_assets
PipePayloads ==
  { EmptyPayload,
    [EmptyPayload EXCEPT !.image_list = Some(<<StrItem(Image1)>>)],
    [EmptyPayload EXCEPT !.image_list = Some(<<StrItem(Image1), StrItem(Image2)>>)],
    [EmptyPayload EXCEPT !.product = SubDict(Some(<<StrItem(Image1)>>), None),
                         !.image_list = Some(<<StrItem(Image2)>>)],
    [EmptyPayload EXCEPT !.image_list =
       Some(<<DictItem(Some(Image1), None, None, None, [t |-> "str", v |-> <<"a">>]),
              DictItem(Some(Image1), None, None, None, [t |-> "str", v |-> <<"a">>])>>)],
    [EmptyPayload EXCEPT !.image_list =
       Some(<<WithFormat(DictItem(Some(Image2), None, None, None, NoId),
                         Some(<<"JPEG", "?", "x">>), None)>>)] }

VARIABLES
  ppc,            \* "off", "idle", "next", "await_get", "process", "done"
  cache_dir,      \* ImageDownloader.cache_dir is set
  retries,        \* ImageDownloader.retries
  output_dir,     \* ImageProcessingPipeline.output_dir is set
  batch,          \* the assets argument of process_assets
  cur,            \* the position in batch of the asset being handled
  dl_attempt,     \* attempt + 1 of the download loop
  dl_last_error,  \* last_error of the download loop
  cache_files,    \* the files in the cache directory
  events,         \* what has been done so far: [asset, ev, arg]
  processed,      \* the list process_assets builds
  output_files,   \* the files in the output directory
  pipe_outcome    \* how process_assets ended

pipeVars == <<ppc, cache_dir, retries, output_dir, batch, cur, dl_attempt, dl_last_error,
              cache_files, events, processed, output_files, pipe_outcome>>

PipeIdle ==
  /\ ppc = "off" /\ cache_dir = FALSE /\ retries = 0 /\ output_dir = FALSE
  /\ batch = <<>> /\ cur = 0 /\ dl_attempt = 0 /\ dl_last_error = "none"
  /\ cache_files = {} /\ events = <<>> /\ processed = <<>> /\ output_files = {}
  /\ pipe_outcome = Running

\* --------------------------------------------------- resolution enhancer
\* An image size is [w, h].  The upscale factor is a number of quarters:
\* q stands for the float q / 4, which is exact.
Min(a, b) == IF a <= b THEN a ELSE b

\* (mutant) the product is rounded half up instead of truncated
TargetDim_Rounded(dim, q, cap) == Min((2 * dim * q + 4) \div 8, cap)

\* min(int(dim * self.config.upscale_factor), self.config.max_size)
TargetDim(dim, q, cap) == Min((dim * q) \div 4, cap)

\* ResolutionEnhancer.enhance: the size of the image it returns
enhance(size, q, cap) ==
  IF q <= 4 THEN size
  ELSE [w |-> TargetDim(size.w, q, cap), h |-> TargetDim(size.h, q, cap)]

VARIABLES enPc, en_size, upscale_factor, max_size, en_out

enVars == <<enPc, en_size, upscale_factor, max_size, en_out>>

EnIdle ==
  /\ enPc = "off" /\ en_size = [w |-> 1, h |-> 1] /\ upscale_factor = 0
  /\ max_size = 1 /\ en_out = [w |-> 1, h |-> 1]

\* --------------------------------------------------- background remover
\* An image is a function from the pixels (x, y) to a colour <<r, g, b>>;
\* the mask of cv2.grabCut gives each pixel one of the four classes.
Cells == (1..GridW) \X (1..GridH)
Classes == {"GC_BGD", "GC_FGD", "GC_PR_BGD", "GC_PR_FGD"}

\* np.array(image.convert("RGB")): every pixel has its own colour, the
\* first one is black
np_img == [c \in Cells |->
            IF c = <<1, 1>> THEN <<0, 0, 0>> ELSE <<10 * c[1], 10 * c[2], 255>>]

\* (mutant) only the sure foreground is kept
Foreground_SureOnly == {"GC_FGD"}

\* the classes np.where (line 49) maps to 1
Foreground == {"GC_FGD", "GC_PR_FGD"}

\* cv2.dilate with a 3x3 kernel of ones, one iteration, on the set of the
\* pixels whose value is 1: a pixel becomes 1 when it or one of its
\* neighbours inside the image is 1
Dilate3x3(ones) ==
  {c \in Cells : \E d \in ones : /\ d[1] - c[1] \in {-1, 0, 1}
                                  /\ d[2] - c[2] \in {-1, 0, 1}}

RECURSIVE Dilate(_, _)
Dilate(ones, iterations) ==
  IF iterations = 0 THEN ones ELSE Dilate(Dilate3x3(ones), iterations - 1)

\* np.clip(mask2, 0, 1)
Clip01(v) == IF v < 0 THEN 0 ELSE IF v > 1 THEN 1 ELSE v

\* BackgroundRemover.remove_background after cv2.grabCut has returned the
\* mask (lines 49-57): the RGBA image, as a function from the pixels to
\* [rgb, alpha]; the arithmetic is that of uint8
remove_background(img, mask, iterations) ==
  LET ones == {c \in Cells : mask[c] \in Foreground}
      kept == IF iterations > 0 THEN Dilate(ones, iterations) ELSE ones
  IN  [c \in Cells |->
         LET mask2 == Clip01(IF c \in kept THEN 1 ELSE 0)
         IN  [rgb   |-> [i \in 1..3 |-> (img[c][i] * mask2) % 256],
              alpha |-> (mask2 * 255) % 256]]

VARIABLES fgPc, fg_mask, dilation_iterations, fg_out

fgVars == <<fgPc, fg_mask, dilation_iterations, fg_out>>

FgIdle ==
  /\ fgPc = "off" /\ fg_mask = <<>> /\ dilation_iterations = 0 /\ fg_out = <<>>

imgVars == <<enVars, fgVars>>

ImgIdle == EnIdle /\ FgIdle

vars == <<urlVars, txtVars, mainVars, exVars, pipeVars, imgVars>>

InitUrl ==
  /\ urlPc = "start"
  /\ urlSegs \in SeqsUpTo(SegSet, MaxSegs)
  /\ urlParams \in SeqsUpTo([k : ParamKeys, v : ParamVals], MaxParams)
  /\ urlStr = RenderUrl(urlSegs, urlParams)
  /\ urlId = None
  /\ urlSource = "none"
  /\ TxtIdle /\ MainIdle /\ ExIdle /\ PipeIdle /\ ImgIdle

\* strategies (1) and (2) of _determine_product_id applied to the URL
LocalExtract ==
  /\ urlPc = "start"
  /\ urlId' = LocalStrategies(urlStr).id
  /\ urlSource' = LocalStrategies(urlStr).source
  /\ urlPc' = "done"
  /\ UNCHANGED <<urlSegs, urlParams, urlStr>>
  /\ UNCHANGED <<txtVars, mainVars, exVars, pipeVars, imgVars>>

NextUrl == LocalExtract

SpecUrl == InitUrl /\ [][NextUrl]_vars

InitText ==
  /\ txtPc = "start"
  /\ txtLead \in TextLeads
  /\ txtLink \in TextLinks
  /\ txtTail \in SeqsUpTo(TailChars, MaxTail)
  /\ txtRaw = txtLead \o txtLink \o txtTail
  /\ txtUrl = <<>>
  /\ txtErr = NoError
  /\ UrlIdle /\ MainIdle /\ ExIdle /\ PipeIdle /\ ImgIdle

\* lines 115-126 of parse_input_to_product on the share text
NormalizeText ==
  /\ txtPc = "start"
  /\ txtUrl' = ParseFront(txtRaw).url
  /\ txtErr' = ParseFront(txtRaw).err
  /\ txtPc' = "done"
  /\ UNCHANGED <<txtLead, txtLink, txtTail, txtRaw>>
  /\ UNCHANGED <<urlVars, mainVars, exVars, pipeVars, imgVars>>

NextText == NormalizeText

SpecText == InitText /\ [][NextText]_vars

InitExtract ==
  /\ exPc = "start"
  /\ exPayload \in ExPayloads
  /\ exAssets = <<>>
  /\ UrlIdle /\ TxtIdle /\ MainIdle /\ PipeIdle /\ ImgIdle

\* list(self._extract_images(payload))
ExtractImages ==
  /\ exPc = "start"
  /\ IF ExtractRaises(exPayload)
     THEN exAssets' = <<>> /\ exPc' = "raised"
     ELSE exAssets' = _extract_images(exPayload) /\ exPc' = "done"
  /\ UNCHANGED <<exPayload, urlVars, txtVars, mainVars, pipeVars, imgVars>>

NextExtract == ExtractImages

SpecExtract == InitExtract /\ [][NextExtract]_vars

\* payloads with one list, at the top-level image_list
InitList ==
  /\ exPc = "start"
  /\ exPayload \in ListPayloads
  /\ exAssets = <<>>
  /\ UrlIdle /\ TxtIdle /\ MainIdle /\ PipeIdle /\ ImgIdle

SpecList == InitList /\ [][NextExtract]_vars

\* ----------------------------------------------------- pipeline runs
Ev(k, e, arg) == [asset |-> k, ev |-> e, arg |-> arg]

\* the cache directory before the run: empty, or one file of an earlier run
PossibleCachePaths ==
  UNION {{_resolve_cache_path(TRUE, _extract_images(p)[i])[1] :
            i \in 1..Len(_extract_images(p))} : p \in PipePayloads}
InitialCaches == {{}} \cup {{f} : f \in PossibleCachePaths}

\* ImageDownloader(...) and ImageProcessingPipeline(...) are constructed
InitPipe ==
  /\ ppc = "idle"
  /\ cache_dir \in BOOLEAN
  /\ retries \in 0..MaxRetries
  /\ output_dir \in BOOLEAN
  /\ cache_files \in (IF cache_dir THEN InitialCaches ELSE {{}})
  /\ batch = <<>> /\ cur = 0 /\ dl_attempt = 0 /\ dl_last_error = "none"
  /\ events = <<>> /\ processed = <<>> /\ output_files = {} /\ pipe_outcome = Running
  /\ UrlIdle /\ TxtIdle /\ MainIdle /\ ExIdle /\ ImgIdle

\* process_assets(assets) is called with the descriptors of a payload
CallProcessAssets ==
  /\ ppc = "idle"
  /\ \E p \in PipePayloads : batch' = _extract_images(p)
  /\ processed' = <<>>
  /\ ppc' = "next"
  /\ UNCHANGED <<cache_dir, retries, output_dir, cur, dl_attempt, dl_last_error,
                 cache_files, events, output_files, pipe_outcome>>
  /\ UNCHANGED <<urlVars, txtVars, mainVars, exVars, imgVars>>

\* process_assets ends
PipeEnd(out) == ppc' = "done" /\ pipe_outcome' = out

\* the download of batch[k] begins (lines 32-44 of downloader.py)
BeginDownload(k) ==
  LET asset  == batch[k]
      target == _resolve_cache_path(cache_dir, asset)
      called == Ev(k, "download",
                   IF target # None /\ target[1] \in cache_files
                   THEN <<"exists">> ELSE <<"absent">>)
  IN  IF CacheHit(target, cache_files)
      THEN /\ UNCHANGED <<dl_attempt, dl_last_error>>
           /\ \/ /\ events' = events \o <<called, Ev(k, "hit", target[1]), Ev(k, "image", <<>>)>>
                 /\ ppc' = "process"
                 /\ UNCHANGED pipe_outcome
              \/ /\ events' = events \o <<called, Ev(k, "hit", target[1]),
                                         Ev(k, "fail", <<"load">>)>>
                 /\ PipeEnd(Raised("UnidentifiedImageError", <<>>, ""))
      ELSE IF MoreAttempts(0, retries)
           THEN /\ events' = events \o <<called, Ev(k, "get", <<>>)>>
                /\ dl_attempt' = 1
                /\ dl_last_error' = "none"
                /\ ppc' = "await_get"
                /\ UNCHANGED pipe_outcome
           ELSE /\ events' = events \o <<called, Ev(k, "fail", <<"assert">>)>>
                /\ UNCHANGED <<dl_attempt, dl_last_error>>
                /\ PipeEnd(Raised("AssertionError", <<>>, ""))

\* bulk_download moves to the next asset, or process_assets returns
NextAsset ==
  /\ ppc = "next"
  /\ IF cur = Len(batch)
     THEN /\ PipeEnd(Returned)
          /\ UNCHANGED <<cur, dl_attempt, dl_last_error, events>>
     ELSE /\ cur' = cur + 1
          /\ BeginDownload(cur + 1)
  /\ UNCHANGED <<cache_dir, retries, output_dir, batch, cache_files, processed, output_files>>
  /\ UNCHANGED <<urlVars, txtVars, mainVars, exVars, imgVars>>

\* the GET of one download attempt answers (lines 44-55 of downloader.py)
GetResponse ==
  /\ ppc = "await_get"
  /\ LET target == _resolve_cache_path(cache_dir, batch[cur])
     IN  \/ /\ events' = events
                 \o (IF target # None THEN <<Ev(cur, "cache_write", target[1])>> ELSE <<>>)
                 \o <<Ev(cur, "image", <<>>)>>
            /\ cache_files' = (IF target # None THEN AfterSave(cache_files, target)
                               ELSE cache_files)
            /\ ppc' = "process"
            /\ UNCHANGED <<dl_attempt, dl_last_error, pipe_outcome>>
         \/ \E f \in DownloadErrors \cup (IF target # None THEN {"save"} ELSE {}) :
              /\ dl_last_error' = f
              /\ UNCHANGED cache_files
              /\ IF ~CaughtByLoop(f)
                 THEN /\ UNCHANGED dl_attempt
                      /\ events' = events \o <<Ev(cur, "attempt_failed", <<f>>),
                                                Ev(cur, "fail", <<f>>)>>
                      /\ PipeEnd(Raised(DownloadErrType(f), <<>>, ""))
                 ELSE IF MoreAttempts(dl_attempt, retries)
                 THEN /\ dl_attempt' = dl_attempt + 1
                      /\ events' = events \o <<Ev(cur, "attempt_failed", <<f>>),
                                                Ev(cur, "get", <<>>)>>
                      /\ UNCHANGED <<ppc, pipe_outcome>>
                 ELSE /\ UNCHANGED dl_attempt
                      /\ events' = events \o <<Ev(cur, "attempt_failed", <<f>>),
                                                Ev(cur, "fail", <<"download">>)>>
                      /\ PipeEnd(Raised("RuntimeError", MsgDownload, DownloadErrType(f)))
  /\ UNCHANGED <<cache_dir, retries, output_dir, batch, cur, processed, output_files>>
  /\ UNCHANGED <<urlVars, txtVars, mainVars, exVars, imgVars>>

\* the first n steps of the loop body on the asset at position k have
\* been done (lines 94-98 and 101-107 of pipeline.py)
StepEvents(k, asset, n) ==
  [i \in 1..n |->
     Ev(k, ProcessSteps[i], IF ProcessSteps[i] = "persist" THEN OutputFile(asset) ELSE <<>>)]

\* remove_background, enhance and _store_image on the downloaded image:
\* all three succeed, or one of them raises and process_assets lets the
\* exception through
ProcessImage ==
  /\ ppc = "process"
  /\ \/ /\ output_dir
        /\ events' = events \o StepEvents(cur, batch[cur], Len(ProcessSteps))
        /\ output_files' = AfterStore(output_files, OutputFile(batch[cur]), cur)
        /\ processed' = Append(processed, [asset |-> batch[cur], path |-> OutputFile(batch[cur])])
        /\ ppc' = "next"
        /\ UNCHANGED pipe_outcome
     \/ /\ ~output_dir
        /\ events' = events \o StepEvents(cur, batch[cur], Len(ProcessSteps) - 1)
                            \o <<Ev(cur, "fail", <<"output_dir">>)>>
        /\ UNCHANGED <<processed, output_files>>
        /\ PipeEnd(Raised("RuntimeError", MsgOutputDir, ""))
     \/ \E n \in 1..Len(ProcessSteps) :
          /\ ProcessSteps[n] = "persist" => output_dir
          /\ events' = events \o StepEvents(cur, batch[cur], n - 1)
                              \o <<Ev(cur, "fail", <<ProcessSteps[n]>>)>>
          /\ output_files' = (IF ProcessSteps[n] = "persist"
                              THEN AfterFailedStore(output_files, OutputFile(batch[cur]), cur)
                              ELSE output_files)
          /\ UNCHANGED processed
          /\ PipeEnd(Raised(StepErrType(ProcessSteps[n]), <<>>, ""))
  /\ UNCHANGED <<cache_dir, retries, output_dir, batch, cur, dl_attempt, dl_last_error,
                 cache_files>>
  /\ UNCHANGED <<urlVars, txtVars, mainVars, exVars, imgVars>>

NextPipe == CallProcessAssets \/ NextAsset \/ GetResponse \/ ProcessImage

SpecPipe == InitPipe /\ [][NextPipe]_vars

\* ------------------------------------------------------ enhancer runs
InitEnhance ==
  /\ enPc = "start"
  /\ en_size \in [w : 1..MaxDim, h : 1..MaxDim]
  /\ upscale_factor \in 0..MaxQuarters
  /\ max_size \in 1..MaxCap
  /\ en_out = [w |-> 1, h |-> 1]
  /\ UrlIdle /\ TxtIdle /\ MainIdle /\ ExIdle /\ PipeIdle /\ FgIdle

\* enhancer.enhance(image)
Enhance ==
  /\ enPc = "start"
  /\ en_out' = enhance(en_size, upscale_factor, max_size)
  /\ enPc' = "done"
  /\ UNCHANGED <<en_size, upscale_factor, max_size>>
  /\ UNCHANGED <<urlVars, txtVars, mainVars, exVars, pipeVars, fgVars>>

NextEnhance == Enhance

SpecEnhance == InitEnhance /\ [][NextEnhance]_vars

\* -------------------------------------------- background remover runs
\* the masks with up to MaxMarked pixels of another class than GC_BGD
InitRemove ==
  /\ fgPc = "start"
  /\ \E S \in {T \in SUBSET Cells : Cardinality(T) <= MaxMarked} :
       \E f \in [S -> Classes \ {"GC_BGD"}] :
         fg_mask = [c \in Cells |-> IF c \in S THEN f[c] ELSE "GC_BGD"]
  /\ dilation_iterations \in 0..MaxDilation
  /\ fg_out = <<>>
  /\ UrlIdle /\ TxtIdle /\ MainIdle /\ ExIdle /\ PipeIdle /\ EnIdle

\* remover.remove_background(image), once cv2.grabCut has returned
RemoveBackground ==
  /\ fgPc = "start"
  /\ fg_out' = remove_background(np_img, fg_mask, dilation_iterations)
  /\ fgPc' = "done"
  /\ UNCHANGED <<fg_mask, dilation_iterations>>
  /\ UNCHANGED <<urlVars, txtVars, mainVars, exVars, pipeVars, enVars>>

NextRemove == RemoveBackground

SpecRemove == InitRemove /\ [][NextRemove]_vars

Ctx == [e |-> entry, dry |-> dry_run, cka |-> cookies_arg, given |-> client_given,
        pck |-> parse_cookies]

\* if client is None: client = httpx.Client(follow_redirects=True, ...);
\* the client of the caller keeps its own setting
ClientFollows(given, follows) == IF given THEN follows ELSE TRUE

\* response.url of a GET of url: where the redirects lead when the client
\* follows them, url itself when it does not (an unfollowed 3xx answer is
\* a failure of raise_for_status)
Landings(follows, url, targets) == IF follows THEN targets ELSE {url}

ErrType(f) ==
  CASE f = "status" -> "HTTPStatusError"
    [] f = "json" -> "JSONDecodeError"
    [] OTHER -> "TransportError"

Request(step, url, params, headers) ==
  [step |-> step, url |-> url, params |-> params, headers |-> headers]

\* the GET of _resolve_share_link / _fetch_final_url_html
PlainGet(step, url, cookies) ==
  Request(step, url, NoParams, _build_headers(self_cookies, None, cookies))

\* the n-th GET of _fetch_product_payload
MetaGet(n, pid, cookies) ==
  Request("metadata", PairEndpoint(n), [product_id |-> pid, scene |-> PairScene(n)],
          _build_headers(self_cookies, Some(Referer), cookies))

\* fetch_product_assets_from_parsed up to its first GET
StartFetch(pid, ck, reqs, resps) ==
  /\ fetch_cookies' = ck
  /\ attempt' = 1
  /\ requests' = Append(reqs, MetaGet(1, pid, _effective_cookies(self_cookies, ck)))
  /\ responses' = resps.log
  /\ last_response' = resps.last
  /\ pc' = "await_meta"
  /\ outcome' = Running
  /\ UNCHANGED <<exit_code, last_error, payload, assets>>

\* the answers so far, and the log after one more answer
Answers == [log |-> responses, last |-> last_response]
Answered(step, kind) ==
  [log  |-> Append(responses, [step |-> step, ok |-> kind \in {"ok", "json_object", "json_not_object"}]),
   last |-> kind]

\* the run ends with the result out of the parser and exit code code
Finish(out, code, reqs, resps) ==
  /\ pc' = "done"
  /\ outcome' = out
  /\ exit_code' = code
  /\ requests' = reqs
  /\ responses' = resps.log
  /\ last_response' = resps.last

\* parse_input_to_product raised exc: main() turns a ValueError into exit
\* code 1, every other caller lets it through
ParseFail(ctx, exc, reqs, resps) ==
  /\ Finish(exc, IF ctx.e = "cli" /\ exc.type = "ValueError" THEN Some(1) ELSE None,
            reqs, resps)
  /\ UNCHANGED fetchVars

\* parse_input_to_product returned: what its caller does next
AfterParse(ctx, pid, reqs, resps) ==
  CASE ctx.e = "parse_input_to_product" ->
         Finish(Returned, None, reqs, resps) /\ UNCHANGED fetchVars
    [] ctx.e = "fetch_product_assets" ->
         StartFetch(pid, _effective_cookies(self_cookies, ctx.cka), reqs, resps)
    [] OTHER ->
         IF ctx.dry
         THEN Finish(Returned, Some(0), reqs, resps) /\ UNCHANGED fetchVars
         ELSE StartFetch(pid, None, reqs, resps)

\* (mutant) the page is fetched before the URL is looked at
Determine_FetchFirst(ctx, url, reqs, resps) ==
  /\ det_url' = Some(url)
  /\ final_url' = url
  /\ product_id' = None
  /\ source' = "none"
  /\ client_open' = TRUE
  /\ pc' = "await_page"
  /\ outcome' = Running
  /\ requests' = Append(reqs, PlainGet("page", url, _effective_cookies(self_cookies, ctx.pck)))
  /\ responses' = resps.log
  /\ last_response' = resps.last
  /\ UNCHANGED <<html, exit_code, fetchVars>>

\* _determine_product_id(client, url) up to its return or its GET
Determine(ctx, url, reqs, resps) ==
  /\ det_url' = Some(url)
  /\ final_url' = url
  /\ IF LocalStrategies(url).source # "fetch"
     THEN /\ product_id' = LocalStrategies(url).id
          /\ source' = LocalStrategies(url).source
          /\ client_open' = ctx.given
          /\ UNCHANGED html
          /\ AfterParse(ctx, LocalStrategies(url).id, reqs, resps)
     ELSE /\ product_id' = None
          /\ source' = "none"
          /\ client_open' = TRUE
          /\ pc' = "await_page"
          /\ outcome' = Running
          /\ requests' = Append(reqs, PlainGet("page", url, _effective_cookies(self_cookies, ctx.pck)))
          /\ responses' = resps.log
          /\ last_response' = resps.last
          /\ UNCHANGED <<html, exit_code, fetchVars>>

\* parse_input_to_product(raw, client, cookies) up to its return, its raise
\* or its first GET
ParseBody(ctx, raw) ==
  IF ParseFront(raw).err # NoError
  THEN /\ normalized_url' = <<>>
       /\ client_open' = ctx.given
       /\ UNCHANGED <<det_url, final_url, product_id, source, html>>
       /\ ParseFail(ctx, Raised("ValueError", ParseFront(raw).err, ""), requests, Answers)
  ELSE /\ normalized_url' = ParseFront(raw).url
       /\ IF _is_short_link(ParseFront(raw).url)
          THEN /\ pc' = "await_redirect"
               /\ outcome' = Running
               /\ requests' = Append(requests, PlainGet("redirect", ParseFront(raw).url,
                                       _effective_cookies(self_cookies, ctx.pck)))
               /\ client_open' = TRUE
               /\ UNCHANGED <<responses, last_response, exit_code, det_url, final_url,
                              product_id, source, html, fetchVars>>
          ELSE Determine(ctx, ParseFront(raw).url, requests, Answers)

\* parser.parse_input_to_product(raw, client=..., cookies=ck)
CallParseInput ==
  /\ pc = "idle"
  /\ \E raw \in RawInputs, ck \in CookieArgs, given \in BOOLEAN, follows \in BOOLEAN :
       /\ entry' = "parse_input_to_product"
       /\ raw_input' = raw
       /\ cookies_arg' = ck
       /\ parse_cookies' = ck
       /\ client_given' = given
       /\ follow_redirects' = ClientFollows(given, follows)
       /\ UNCHANGED dry_run
       /\ ParseBody([e |-> "parse_input_to_product", dry |-> FALSE, cka |-> ck,
                     given |-> given, pck |-> ck], raw)
  /\ UNCHANGED <<ctorVars, response_url, urlVars, txtVars, exVars, pipeVars, imgVars>>

\* parser.fetch_product_assets(input_value, cookies=ck)
CallFetchProductAssets ==
  /\ pc = "idle"
  /\ \E input \in RawInputs, ck \in CookieArgs :
       /\ entry' = "fetch_product_assets"
       /\ raw_input' = input
       /\ cookies_arg' = ck
       /\ UNCHANGED <<dry_run, client_given>>
       /\ follow_redirects' = ClientFollows(FALSE, FALSE)
       /\ IF Strip(input) = <<>>
          THEN /\ Finish(Raised("ValueError", MsgNonEmpty, ""), None, requests, Answers)
               /\ UNCHANGED <<parse_cookies, normalized_url, parseVars, fetchVars>>
          ELSE IF IsDigit(Strip(input))
          THEN /\ product_id' = Some(Strip(input))
               /\ UNCHANGED <<parse_cookies, normalized_url, det_url, final_url, source,
                              html, client_open>>
               /\ StartFetch(Some(Strip(input)), _effective_cookies(self_cookies, ck),
                             requests, Answers)
          ELSE /\ parse_cookies' = ck
               /\ ParseBody([e |-> "fetch_product_assets", dry |-> FALSE, cka |-> ck,
                             given |-> FALSE, pck |-> ck], Strip(input))
  /\ UNCHANGED <<ctorVars, response_url, urlVars, txtVars, exVars, pipeVars, imgVars>>

\* cli main(): DouyinProductParser(), _load_cookies(args.cookies),
\* parse_input_to_product(args.input, cookies=...)
CallCli ==
  /\ pc = "idle"
  /\ ctor_cookies = None
  /\ \E input \in RawInputs, explicit \in CookieArgs, dry \in BOOLEAN :
       /\ entry' = "cli"
       /\ raw_input' = input
       /\ cookies_arg' = explicit
       /\ dry_run' = dry
       /\ parse_cookies' = _load_cookies(explicit, env)
       /\ UNCHANGED client_given
       /\ follow_redirects' = ClientFollows(FALSE, FALSE)
       /\ ParseBody([e |-> "cli", dry |-> dry, cka |-> explicit, given |-> FALSE,
                     pck |-> _load_cookies(explicit, env)], input)
  /\ UNCHANGED <<ctorVars, response_url, urlVars, txtVars, exVars, pipeVars, imgVars>>

\* if resolved_url and resolved_url != final_url: final_url = resolved_url
EffectiveUrl(requested, resolved) ==
  IF resolved # <<>> /\ resolved # requested THEN resolved ELSE requested

\* raise ValueError("Unable to determine product id from URL: %s\nHTML
\* snippet: %s" % (final_url, snippet))
NoProductId(url, page) ==
  Raised("ValueError", MsgNoProductId \o url \o MsgSnippet \o _format_html_snippet(page), "")

\* the redirect GET of _resolve_share_link answers
RedirectResponse ==
  /\ pc = "await_redirect"
  /\ \/ \E f \in HttpFailures :
          /\ client_open' = client_given
          /\ UNCHANGED <<det_url, final_url, product_id, source, html, response_url>>
          /\ ParseFail(Ctx, Raised(ErrType(f), <<>>, ""), requests, Answered("redirect", f))
     \/ \E u \in Landings(follow_redirects, normalized_url, LandedUrls) :
          /\ response_url' = u
          /\ Determine(Ctx, u, requests, Answered("redirect", "ok"))
  /\ UNCHANGED <<inVars, ctorVars, urlVars, txtVars, exVars, pipeVars, imgVars>>

\* the page GET of _fetch_final_url_html answers
PageResponse ==
  /\ pc = "await_page"
  /\ \/ \E f \in HttpFailures :
          /\ client_open' = client_given
          /\ UNCHANGED <<det_url, final_url, product_id, source, html, response_url>>
          /\ ParseFail(Ctx, Raised(ErrType(f), <<>>, ""), requests, Answered("page", f))
     \/ \E u \in Landings(follow_redirects, final_url, {final_url} \cup PageRedirects),
           h \in Htmls :
          /\ html' = h
          /\ response_url' = u
          /\ final_url' = EffectiveUrl(final_url, u)
          /\ client_open' = client_given
          /\ product_id' = PageStrategies(EffectiveUrl(final_url, u), h).id
          /\ source' = PageStrategies(EffectiveUrl(final_url, u), h).source
          /\ UNCHANGED det_url
          /\ IF PageStrategies(EffectiveUrl(final_url, u), h).id # None
             THEN AfterParse(Ctx, PageStrategies(EffectiveUrl(final_url, u), h).id, requests,
                             Answered("page", "ok"))
             ELSE ParseFail(Ctx, NoProductId(EffectiveUrl(final_url, u), h), requests,
                            Answered("page", "ok"))
  /\ UNCHANGED <<inVars, ctorVars, urlVars, txtVars, exVars, pipeVars, imgVars>>

\* fetch_product_assets_from_parsed returns or raises: main() turns every
\* exception into exit code 2 (and goes on to the pipeline otherwise)
FetchEnd(out, resps) ==
  Finish(out, IF entry = "cli" /\ out.kind = "raise" THEN Some(2) ELSE None, requests, resps)

\* (mutant) the loops stop after the first pair
MorePairs_FirstOnly(n) == FALSE

\* the loops over endpoints and params_variants have a pair after the n-th
MorePairs(n) == n < NumPairs

\* raise RuntimeError(...) from last_error
FetchFailure(last) == Raised("RuntimeError", MsgFetchFailed, last)

\* images = list(self._extract_images(payload)) and what follows it
\* (lines 103-106)
ExtractOutcome(p) ==
  IF ExtractRaises(p) THEN Raised("TypeError", <<>>, "")
  ELSE IF _extract_images(p) = <<>> THEN Raised("ValueError", MsgNoImages, "")
  ELSE Returned

\* one GET of _fetch_product_payload answers
MetaResponse ==
  /\ pc = "await_meta"
  /\ \/ \E f \in {"status", "json", "transport"} :
          /\ last_error' = ErrType(f)
          /\ UNCHANGED <<fetch_cookies, payload, assets>>
          /\ IF MorePairs(attempt)
             THEN /\ attempt' = attempt + 1
                  /\ requests' = Append(requests, MetaGet(attempt + 1, product_id, fetch_cookies))
                  /\ responses' = Answered("metadata", f).log
                  /\ last_response' = f
                  /\ UNCHANGED <<pc, outcome, exit_code>>
             ELSE /\ UNCHANGED attempt
                  /\ FetchEnd(FetchFailure(ErrType(f)), Answered("metadata", f))
     \/ /\ UNCHANGED fetchVars
        /\ FetchEnd(Raised("AttributeError", <<>>, ""), Answered("metadata", "json_not_object"))
     \/ \E p \in MetaPayloads :
          /\ payload' = Some(p)
          /\ assets' = (IF ExtractRaises(p) THEN <<>> ELSE _extract_images(p))
          /\ UNCHANGED <<fetch_cookies, attempt, last_error>>
          /\ FetchEnd(ExtractOutcome(p), Answered("metadata", "json_object"))
  /\ UNCHANGED <<inVars, ctorVars, parseVars, response_url, urlVars, txtVars, exVars,
               pipeVars, imgVars>>

Next == CallParseInput \/ CallFetchProductAssets \/ CallCli
        \/ RedirectResponse \/ PageResponse \/ MetaResponse

Init ==
  /\ pc = "idle"
  /\ ctor_cookies \in CtorArgs
  /\ env \in Environments
  /\ self_cookies = InitCookies(ctor_cookies, env)
  /\ entry = "none" /\ raw_input = <<>> /\ dry_run = FALSE
  /\ cookies_arg = None /\ client_given = FALSE /\ client_open = FALSE
  /\ follow_redirects = FALSE /\ response_url = <<>>
  /\ parse_cookies = None /\ fetch_cookies = None
  /\ normalized_url = <<>> /\ det_url = None /\ final_url = <<>> /\ product_id = None
  /\ source = "none" /\ html = <<>> /\ requests = <<>> /\ responses = <<>>
  /\ last_response = "none" /\ exit_code = None
  /\ attempt = 0 /\ last_error = "none" /\ payload = None /\ assets = <<>>
  /\ outcome = Running
  /\ UrlIdle /\ TxtIdle /\ ExIdle /\ PipeIdle /\ ImgIdle

Spec == Init /\ [][Next]_vars

\* ----------------------------------------------------------------------
\* Claims
StepGets(step) == SelectSeq(requests, LAMBDA r : r.step = step)
StepAnswers(step) == SelectSeq(responses, LAMBDA r : r.step = step)
Contains(msg, phrase) == \E i \in 1..Len(msg) : msg[i] = phrase

\* ---- C1 ----
\* C1: _determine_product_id tries the query parameters, then the path
\* patterns, and issues the page GET (once) only when both fail on the URL
\* it was given; when one of them succeeds its id is returned and no page
\* GET is ever made.
C1_ShortCircuit ==
  det_url # None =>
    LET q == _extract_product_id_from_query(det_url[1])
        u == _extract_product_id(det_url[1])
    IN  /\ Len(StepGets("page")) <= 1
        /\ (q # None => /\ StepGets("page") = <<>>
                        /\ product_id = q /\ source = "query")
        /\ (q = None /\ u # None => /\ StepGets("page") = <<>>
                                    /\ product_id = u /\ source = "url")
        /\ (q = None /\ u = None => /\ Len(StepGets("page")) = 1
                                    /\ StepGets("page")[1].url = det_url[1]
                                    /\ requests[Len(StepGets("redirect")) + 1].step = "page")

\* a short link that lands on a URL with the id in its path: the run ends
\* with the redirect GET as its only resolver request
C1_Witness ==
  /\ pc = "done" /\ entry = "parse_input_to_product"
  /\ Len(StepGets("redirect")) = 1 /\ source = "url" /\ StepGets("page") = <<>>

\* ---- C2 ----
IdWords == { <<"product">>, <<"goods">>, <<"item">> }
IdKeys == { <<"product_id">>, <<"goods_id">>, <<"item_id">> }

\* the numeric ids the generated URL carries in the shapes the claim lists:
\* a numeric segment after product/ goods/ item/, a numeric value of
\* product_id= goods_id= item_id=, and id=<id> on an index.html page
CarriedIds ==
  {urlSegs[i + 1] : i \in {j \in 1..(Len(urlSegs) - 1) :
        Lower(urlSegs[j]) \in IdWords /\ IsDigit(urlSegs[j + 1])}}
  \cup {urlParams[i].v : i \in {j \in 1..Len(urlParams) :
        Lower(urlParams[j].k) \in IdKeys /\ IsDigit(urlParams[j].v)}}
  \cup {urlParams[i].v : i \in {j \in 1..Len(urlParams) :
        /\ Lower(urlParams[j].k) = <<"id">> /\ IsDigit(urlParams[j].v)
        /\ Len(urlSegs) > 0 /\ urlSegs[Len(urlSegs)] = <<"index.html">>}}

NumericParams ==
  {urlParams[i].v : i \in {j \in 1..Len(urlParams) :
        Lower(urlParams[j].k) \in (IdKeys \cup {<<"id">>}) /\ IsDigit(urlParams[j].v)}}

PathRuns ==
  {DigitRun(urlSegs[i + 1], 1) : i \in {j \in 1..(Len(urlSegs) - 1) :
        Lower(urlSegs[j]) \in IdWords}} \ {<<>>}

ParamRuns ==
  {DigitRun(urlParams[i].v, 1) : i \in {j \in 1..Len(urlParams) :
        Lower(urlParams[j].k) \in IdKeys}} \ {<<>>}

IdRuns == PathRuns \cup ParamRuns \cup NumericParams

C3_BareLink ==
  (/\ txtPc = "done"
   /\ Len(txtTail) >= 2
   /\ txtTail[1] \in {"U+FF0C", "U+FF01"}
   /\ txtTail[2] = "CJK") =>
    txtErr = NoError /\ txtUrl = txtLink

\* ---- C4 ----
NoHttp(text) == \A i \in 1..Len(text) : text[i] # "https://"

\* C4: parse_input_to_product fails with a ValueError naming "non-empty
\* string" on blank input and with one naming "link" on text without an
\* http(s) link, and has issued no request in either case.
C4_InvalidInput ==
  (entry = "parse_input_to_product" /\ (Strip(raw_input) = <<>> \/ NoHttp(raw_input))) =>
    /\ pc = "done"
    /\ outcome.kind = "raise" /\ outcome.type = "ValueError"
    /\ requests = <<>>
    /\ IF Strip(raw_input) = <<>>
       THEN Contains(outcome.msg, "non-empty string")
       ELSE Contains(outcome.msg, "link") /\ ~Contains(outcome.msg, "non-empty string")

\* whitespace-only input has been rejected
C4_Witness ==
  /\ entry = "parse_input_to_product" /\ raw_input = <<" ", " ">>
  /\ outcome.msg = MsgNonEmpty

\* ---- C5 ----
\* C5: on every entry point a bare numeric input is taken verbatim as the
\* product id and no redirect or page request is made.
C5_BareNumeric ==
  (entry # "none" /\ IsDigit(raw_input)) =>
    /\ product_id = Some(raw_input)
    /\ StepGets("redirect") = <<>> /\ StepGets("page") = <<>>

\* ---- C6 ----
\* the call-level cookies argument under which a request was built
CallLevel(r) == IF r.step = "metadata" THEN fetch_cookies ELSE parse_cookies

\* the first of the call-level value and self.cookies that is not blank
InEffect(call) ==
  IF call # None /\ (\E i \in 1..Len(call[1]) : call[1][i] \notin Whitespace)
  THEN Some(Strip(call[1])) ELSE self_cookies

\* C6: every request carries the fixed User-Agent, a Cookie header equal to
\* the credential in effect (none when there is no credential), and a
\* Referer header exactly when it is a metadata request.
C6_Headers ==
  \A i \in 1..Len(requests) :
    LET r == requests[i]
    IN  /\ r.headers.UserAgent = Some(user_agent)
        /\ r.headers.Cookie = InEffect(CallLevel(r))
        /\ (r.headers.Referer # None) <=> (r.step = "metadata")

\* a run with a redirect, a page and a metadata request that all carry the
\* call-level cookie, on a parser that has another cookie of its own
C6_Witness ==
  /\ StepGets("redirect") # <<>> /\ StepGets("page") # <<>> /\ StepGets("metadata") # <<>>
  /\ self_cookies = Some(<<"c">>)
  /\ \A i \in 1..Len(requests) : requests[i].headers.Cookie = Some(<<"a">>)

\* ---- C7 ----
NonBlank(opt) == opt # None /\ (\E i \in 1..Len(opt[1]) : opt[1][i] \notin Whitespace)

\* the environment/dotenv default: the variable, else the .env value
EnvDefault ==
  IF NonBlank(env.var) THEN Some(Strip(env.var[1])) ELSE _load_cookies_from_env(env)

FirstNonBlank(call) ==
  IF NonBlank(call) THEN Some(Strip(call[1]))
  ELSE IF NonBlank(ctor_cookies) THEN Some(Strip(ctor_cookies[1]))
  ELSE EnvDefault

\* C7: the credential of every request is the first non-blank of the
\* call-level argument, the constructor argument and the environment
\* default.
C7_FirstNonBlank ==
  \A i \in 1..Len(requests) :
    requests[i].headers.Cookie = FirstNonBlank(CallLevel(requests[i]))

\* ---- C8 ----
WebEndpoint == <<"https://", "www.douyin.com", "/aweme/v1/web/product/detail/">>
EcEndpoint == <<"https://", "ec.snssdk.com", "/product/goods/detail/v2">>
FixedOrder ==
  << [url |-> WebEndpoint, scene |-> None], [url |-> WebEndpoint, scene |-> Some(<<"detail">>)],
     [url |-> EcEndpoint, scene |-> None], [url |-> EcEndpoint, scene |-> Some(<<"detail">>)] >>

MetaInOrder ==
  /\ Len(StepGets("metadata")) <= Len(FixedOrder)
  /\ \A i \in 1..Len(StepGets("metadata")) :
       /\ StepGets("metadata")[i].url = FixedOrder[i].url
       /\ StepGets("metadata")[i].params = [product_id |-> product_id, scene |-> FixedOrder[i].scene]

\* C8: the metadata requests go out in the fixed order, and the first 2xx
\* answer with a parseable JSON body ends the requests and its payload is
\* the one used (also when it has no images).
C8_FirstPayload ==
  /\ MetaInOrder
  /\ \A i \in 1..Len(StepAnswers("metadata")) :
       StepAnswers("metadata")[i].ok =>
         /\ i = Len(StepGets("metadata"))
         /\ pc = "done"
         /\ payload # None
         /\ ~ExtractRaises(payload[1]) =>
              /\ assets = _extract_images(payload[1])
              /\ outcome = (IF assets = <<>> THEN Raised("ValueError", MsgNoImages, "")
                            ELSE Returned)

\* ---- C9 ----
FailureKinds == {"status", "json", "transport"}

\* C9: a failed attempt is followed by the next pair; AssetFetchFailed is
\* raised only after the four pairs have failed, with the error of the
\* last pair as its cause.
C9_Exhaustion ==
  /\ \A i \in 1..Len(StepAnswers("metadata")) :
       (~StepAnswers("metadata")[i].ok /\ i < Len(FixedOrder)) =>
         /\ Len(StepGets("metadata")) >= i + 1
         /\ StepGets("metadata")[i + 1].url = FixedOrder[i + 1].url
  /\ (outcome.kind = "raise" /\ outcome.type = "RuntimeError") =>
       /\ Len(StepGets("metadata")) = Len(FixedOrder)
       /\ Len(StepAnswers("metadata")) = Len(FixedOrder)
       /\ \A i \in 1..Len(FixedOrder) : ~StepAnswers("metadata")[i].ok
       /\ last_response \in FailureKinds
       /\ outcome.cause = ErrType(last_response)
  /\ (pc = "done" /\ Len(StepAnswers("metadata")) = Len(FixedOrder)
        /\ last_response \in FailureKinds) =>
       outcome.kind = "raise" /\ outcome.type = "RuntimeError"

\* all four pairs were tried and the last one failed to decode
C9_Witness ==
  /\ pc = "done" /\ Len(StepGets("metadata")) = 4 /\ last_response = "json"
  /\ outcome.type = "RuntimeError" /\ outcome.cause = "JSONDecodeError"

\* ---- C10 ----
NonEmptyList(l) == l # None /\ l[1] # <<>>
Descriptors(l) == IF NonEmptyList(l) THEN ListAssets(l[1], 1) ELSE <<>>
FirstNonEmptyList(a, b) == IF NonEmptyList(a) THEN a ELSE b

\* C10 as stated: the descriptors are those of all five lists, in path order.
C10_AllLists ==
  (exPc = "done" /\ exPayload.isdict) =>
    exAssets =
      (IF exPayload.product.isdict
       THEN Descriptors(exPayload.product.a) \o Descriptors(exPayload.product.b) ELSE <<>>)
      \o (IF exPayload.data.isdict
          THEN Descriptors(exPayload.data.a) \o Descriptors(exPayload.data.b) ELSE <<>>)
      \o Descriptors(exPayload.image_list)

\* C10 (amended): the descriptors are those of the first non-empty of
\* product.image / product.images, then of the first non-empty of
\* data.images / data.image_list, then of the top-level image_list.
C10_OnePerGroup ==
  (exPc = "done" /\ exPayload.isdict) =>
    exAssets =
      (IF exPayload.product.isdict
       THEN Descriptors(FirstNonEmptyList(exPayload.product.a, exPayload.product.b)) ELSE <<>>)
      \o (IF exPayload.data.isdict
          THEN Descriptors(FirstNonEmptyList(exPayload.data.a, exPayload.data.b)) ELSE <<>>)
      \o Descriptors(exPayload.image_list)

\* a payload with lists in all three groups, product.image and
\* product.images both non-empty
C10_Witness ==
  /\ exPc = "done" /\ exPayload.isdict /\ exPayload.product.isdict /\ exPayload.data.isdict
  /\ NonEmptyList(exPayload.product.a) /\ NonEmptyList(exPayload.product.b)
  /\ exPayload.product.a # exPayload.product.b
  /\ ~NonEmptyList(exPayload.data.a) /\ NonEmptyList(exPayload.data.b)
  /\ NonEmptyList(exPayload.image_list)
  /\ Len(exAssets) = 3

\* ---- C11 ----
\* the URL the priority rule gives for one element: the first non-empty of
\* url, origin_url, image_url and the first string entry of url_list
FirstStringEntry(item) ==
  IF item.url_list # None /\ item.url_list_iterable
  THEN FirstString(item.url_list[1]) ELSE None
PriorityUrl(item) ==
  IF item.kind = "str" THEN Some(item.s)
  ELSE IF item.kind # "dict" THEN None
  ELSE IF Truthy(item.url) THEN item.url
  ELSE IF Truthy(item.origin_url) THEN item.origin_url
  ELSE IF Truthy(item.image_url) THEN item.image_url
  ELSE FirstStringEntry(item)
Resolvable(images) == SelectSeq(images, LAMBDA item : Truthy(PriorityUrl(item)))
UrlsOf(seq) == [i \in 1..Len(seq) |-> seq[i].url]

\* C11: the extraction of a list never fails, and its descriptors are, in
\* source order, those of the elements that have a URL by the priority
\* rule (the others are skipped).
C11_SourceOrder ==
  exPc # "start" =>
    /\ exPc = "done"
    /\ UrlsOf(exAssets) =
         [i \in 1..Len(Resolvable(exPayload.image_list[1])) |->
            PriorityUrl(Resolvable(exPayload.image_list[1])[i])[1]]

\* ---- C13 ----
\* the positions (1-based) of the elements of a list that yield a descriptor
Kept(images) ==
  SelectSeq([n \in 1..Len(images) |-> n], LAMBDA n : Truthy(PriorityUrl(images[n])))
\* the element gives no id of its own: a bare string, no id, an empty or zero id
NoOwnId(item) ==
  \/ item.kind = "str"
  \/ item.id.t = "none"
  \/ item.id.v = <<>>
  \/ (item.id.t = "int" /\ item.id.v = <<"0">>)

\* C13: every descriptor has a non-empty id and a non-empty url, and the id
\* is the element's index in its list when the element gives no id of its own.
C13_IdAndUrl ==
  exPc = "done" =>
    /\ Len(exAssets) = Len(Kept(exPayload.image_list[1]))
    /\ \A k \in 1..Len(exAssets) :
         /\ exAssets[k].id # <<>>
         /\ exAssets[k].url # <<>>
         /\ NoOwnId(exPayload.image_list[1][Kept(exPayload.image_list[1])[k]]) =>
              exAssets[k].id = IndexText(Kept(exPayload.image_list[1])[k] - 1)

\* a list whose first element is skipped, whose second has the id 0 and
\* whose third is a bare string: the descriptors get the ids 1 and 2
C13_Witness ==
  /\ exPc = "done"
  /\ Len(exPayload.image_list[1]) = 3
  /\ Kept(exPayload.image_list[1]) = <<2, 3>>
  /\ exPayload.image_list[1][2].id = [t |-> "int", v |-> <<"0">>]
  /\ exPayload.image_list[1][3].kind = "str"
  /\ exAssets[1].id = <<"1">> /\ exAssets[2].id = <<"2">>

\* ---- C12 ----
\* a metadata request was answered 2xx with a parseable JSON body
MetaFetched == \E i \in 1..Len(StepAnswers("metadata")) : StepAnswers("metadata")[i].ok
NoImagesFound == Raised("ValueError", MsgNoImages, "")
\* scanning all candidate lists of the payload gives no valid descriptor
ZeroDescriptors(p) ==
  \A i \in 1..Len(candidate_lists(p)) :
    ~NonEmptyList(candidate_lists(p)[i]) \/ Resolvable(candidate_lists(p)[i][1]) = <<>>

\* C12: once the metadata is fetched the call ends either in NoImagesFound,
\* exactly when the payload holds no valid descriptor, or in the return of
\* a non-empty descriptor list; NoImagesFound is raised in no other case.
C12_NoImagesIff ==
  /\ outcome = NoImagesFound => MetaFetched
  /\ (pc = "done" /\ MetaFetched) =>
       /\ payload # None
       /\ outcome = NoImagesFound <=> ZeroDescriptors(payload[1])
       /\ outcome # NoImagesFound => (outcome = Returned /\ assets # <<>>)

\* ---- C14 ----
\* the positions in the log of the events e of the asset at position k
EvIdx(k, e) == {i \in 1..Len(events) : events[i].asset = k /\ events[i].ev = e}
\* the file of the asset existed in the cache when its download was called
ExistedAtCall(k) == \E i \in EvIdx(k, "download") : events[i].arg = <<"exists">>

\* C14: a download called while its cache file exists issues no GET, and
\* so does the download of an asset that was downloaded before with the
\* cache enabled.
C14_CacheHit ==
  /\ \A k \in 1..cur : ExistedAtCall(k) => EvIdx(k, "get") = {}
  /\ \A i, j \in 1..cur :
       (cache_dir /\ i < j /\ batch[i] = batch[j] /\ EvIdx(i, "image") # {}) =>
         EvIdx(j, "get") = {}

\* the same asset twice: the first download went to the network and filled
\* the cache, the second was served from it
C14_Witness ==
  /\ cache_dir /\ cur = 2 /\ batch[1] = batch[2]
  /\ EvIdx(1, "get") # {} /\ EvIdx(1, "image") # {}
  /\ ExistedAtCall(2) /\ EvIdx(2, "image") # {} /\ EvIdx(2, "get") = {}

\* ---- C15 ----
DownloadFailed == pipe_outcome.kind = "raise" /\ pipe_outcome.msg = MsgDownload

\* C15: a download issues at most retries + 1 GETs, none after the attempt
\* that succeeds; it fails exactly when retries + 1 attempts have failed,
\* with the error of the last attempt as the cause and no cache file
\* written.
C15_Retries ==
  /\ \A k \in 1..cur :
       LET gets == EvIdx(k, "get")
           images == EvIdx(k, "image")
       IN  /\ Cardinality(gets) <= retries + 1
           /\ \A g \in gets : \A m \in images : g < m
  /\ DownloadFailed =>
       /\ pipe_outcome.type = "RuntimeError"
       /\ Cardinality(EvIdx(cur, "get")) = retries + 1
       /\ EvIdx(cur, "image") = {}
       /\ pipe_outcome.cause = DownloadErrType(dl_last_error)
       /\ EvIdx(cur, "cache_write") = {}
       /\ cache_dir => _resolve_cache_path(TRUE, batch[cur])[1] \notin cache_files
  /\ (ppc # "await_get" /\ cur > 0 /\ EvIdx(cur, "get") # {} /\ EvIdx(cur, "image") = {}) =>
       DownloadFailed

\* three attempts on the second asset have failed, the last one with a
\* transport error
C15_Witness ==
  /\ DownloadFailed /\ retries = 2 /\ cur = 2
  /\ Cardinality(EvIdx(2, "get")) = 3
  /\ pipe_outcome.cause = "TransportError"

\* ---- C16 ----
\* <asset-id>_<urlhash>.<ext>, ext the declared or default format in lower
\* case up to a "?"
NamedExt(asset) ==
  LET f == Lower(IF Truthy(asset.format) THEN asset.format[1] ELSE <<"png">>)
  IN  SubSeq(f, 1, FirstIn(f, 1, {"?"}) - 1)
NamedCachePath(asset) == asset.id \o <<"_">> \o Sha1(asset.url) \o <<".">> \o NamedExt(asset)

\* C16: a download that went to the network and succeeded has written one
\* cache file, the one named after the asset, before the image is
\* returned; without a cache directory nothing is ever written.
C16_OneCacheFile ==
  /\ cache_dir =>
       \A k \in 1..cur :
         LET images == EvIdx(k, "image")
             writes == EvIdx(k, "cache_write")
         IN  (images # {} /\ EvIdx(k, "get") # {}) =>
               /\ Cardinality(writes) = 1
               /\ \A w \in writes :
                    /\ events[w].arg = NamedCachePath(batch[k])
                    /\ events[w].arg \in cache_files
                    /\ \A m \in images : w < m
  /\ ~cache_dir =>
       /\ cache_files = {}
       /\ \A i \in 1..Len(events) : events[i].ev # "cache_write"

\* an asset with the format JPEG?x was downloaded and cached as ....jpeg
C16_Witness ==
  /\ cache_dir /\ cur = 1 /\ batch[1].format = Some(<<"JPEG", "?", "x">>)
  /\ EvIdx(1, "image") # {}
  /\ \E w \in EvIdx(1, "cache_write") :
       events[w].arg = <<"0", "_">> \o Sha1(Image2) \o <<".", "jpeg">>

\* ---- C17 ----
\* C17: no step removes a file from the cache directory, and no step
\* writes a cache file that already exists.
C17_AppendOnly ==
  [][/\ cache_files \subseteq cache_files'
     /\ \A i \in (Len(events) + 1)..Len(events') :
          events'[i].ev = "cache_write" => events'[i].arg \notin cache_files]_vars

\* a download was retried and then written to a cache directory that held
\* a file of an earlier run
C17_Witness ==
  /\ Cardinality(cache_files) = 2 /\ cur = 1
  /\ Cardinality(EvIdx(1, "get")) = 2
  /\ EvIdx(1, "cache_write") # {}

\* ---- C18 ----
AssetSteps == <<"download", "extract", "enhance", "persist">>
StepLog == SelectSeq(events, LAMBDA e : \E i \in 1..Len(AssetSteps) : e.ev = AssetSteps[i])

\* C18: the steps happen asset after asset in input order, each asset going
\* through acquire, extract, enhance, persist before the next is acquired,
\* and the results are in input order.
C18_InOrder ==
  /\ LET log == StepLog
     IN  \A i \in 1..Len(log) :
           /\ log[i].asset = ((i - 1) \div Len(AssetSteps)) + 1
           /\ log[i].ev = AssetSteps[((i - 1) % Len(AssetSteps)) + 1]
  /\ Len(processed) <= Len(batch)
  /\ \A i \in 1..Len(processed) : processed[i].asset = batch[i]
  /\ pipe_outcome = Returned => Len(processed) = Len(batch)

\* two different assets have been processed
C18_Witness ==
  /\ pipe_outcome = Returned /\ Len(batch) = 2 /\ batch[1] # batch[2]
  /\ Len(StepLog) = 8

\* ---- C19 ----
\* C19: after a successful run there are as many output files as results,
\* and no output file was written twice.
C19_WriteOnce ==
  pipe_outcome = Returned =>
    /\ Cardinality({processed[i].path : i \in 1..Len(processed)}) = Len(processed)
    /\ \A i, j \in 1..Len(events) :
         (i < j /\ events[i].ev = "persist" /\ events[j].ev = "persist") =>
           events[i].arg # events[j].arg

\* ---- C20 ----
\* C20: without an output directory process_assets ends in
\* OutputNotConfigured, whatever the asset list.
C20_OutputNotConfigured ==
  (ppc = "done" /\ ~output_dir) => pipe_outcome = Raised("RuntimeError", MsgOutputDir, "")

\* ---- C21 ----
PipeFailed == pipe_outcome.kind = "raise"
\* the latest asset before position k that is stored under the file name of
\* the asset at position j
LastWriter(j, k) ==
  CHOOSE w \in 1..(k - 1) :
    /\ OutputFile(batch[w]) = OutputFile(batch[j])
    /\ \A v \in 1..(k - 1) : OutputFile(batch[v]) = OutputFile(batch[j]) => v <= w

\* C21: when the processing of the asset at position k fails, process_assets
\* ends with the error of the failing step, the output files of the assets
\* before k are as they were when k was taken up, nothing else is in the
\* output directory, and no asset after k has been touched.
C21_NoRollback ==
  PipeFailed =>
    /\ cur >= 1
    /\ events[Len(events)].asset = cur /\ events[Len(events)].ev = "fail"
    /\ Len(processed) = cur - 1
    /\ \A j \in 1..(cur - 1) :
         [path |-> OutputFile(batch[j]), by |-> LastWriter(j, cur), whole |-> TRUE]
           \in output_files
    /\ \A r \in output_files : \E j \in 1..(cur - 1) : r.path = OutputFile(batch[j])
    /\ \A i \in 1..Len(events) : events[i].asset <= cur

\* the same, for batches whose assets have different ids
C21_DistinctIds ==
  (\A i, j \in 1..Len(batch) : i # j => batch[i].id # batch[j].id) => C21_NoRollback

\* ---- C27 ----
\* the GETs of the asset at position k issued before position i of the log
GetsBefore(k, i) == {g \in EvIdx(k, "get") : g < i}

\* C27: with a cache directory, an attempt whose image.save fails returns
\* no image and counts as a failed attempt: it is followed by a new GET
\* while attempts are left and by AssetDownloadFailed (caused by the save
\* error) when none is; a cache file that cannot be read ends the call
\* with the read error, with no GET and no second read.
C27_SaveFailure ==
  /\ \A k \in 1..cur : \A i \in EvIdx(k, "attempt_failed") :
       events[i].arg = <<"save">> =>
         /\ cache_dir
         /\ events[i - 1] = Ev(k, "get", <<>>)
         /\ Cardinality(GetsBefore(k, i)) <= retries + 1
         /\ i < Len(events)
         /\ IF Cardinality(GetsBefore(k, i)) < retries + 1
            THEN events[i + 1] = Ev(k, "get", <<>>)
            ELSE /\ events[i + 1] = Ev(k, "fail", <<"download">>)
                 /\ i + 1 = Len(events)
                 /\ pipe_outcome = Raised("RuntimeError", MsgDownload, "OSError")
  /\ \A k \in 1..cur : \A i \in EvIdx(k, "fail") :
       events[i].arg = <<"load">> =>
         /\ ExistedAtCall(k)
         /\ EvIdx(k, "get") = {}
         /\ Cardinality(EvIdx(k, "hit")) = 1
         /\ EvIdx(k, "image") = {}
         /\ i = Len(events)
         /\ pipe_outcome = Raised("UnidentifiedImageError", <<>>, "")

\* every GET and decode succeeded, the save failed three times: the call
\* ends in AssetDownloadFailed
C27_Witness ==
  /\ cache_dir /\ retries = 2 /\ cur = 1
  /\ Cardinality(EvIdx(1, "get")) = 3
  /\ Cardinality(EvIdx(1, "attempt_failed")) = 3
  /\ \A i \in EvIdx(1, "attempt_failed") : events[i].arg = <<"save">>
  /\ pipe_outcome = Raised("RuntimeError", MsgDownload, "OSError")

\* ---- C22 ----
\* round(dim * factor), the factor being q quarters: to the nearest
\* integer, a half to the even one
Rounded(dim, q) ==
  LET fl == (dim * q) \div 4
      r  == (dim * q) % 4
  IN  IF r < 2 THEN fl
      ELSE IF r > 2 THEN fl + 1
      ELSE IF fl % 2 = 0 THEN fl ELSE fl + 1
\* int(dim * factor): the fraction is dropped
Truncated(dim, q) == (dim * q) \div 4

\* C22 as stated: with a factor <= 1.0 the size is unchanged; with a larger
\* factor each axis is round(original x factor) when that is at most
\* max_size and max_size when it is more.
C22_Rounded ==
  enPc = "done" =>
    IF upscale_factor <= 4 THEN en_out = en_size
    ELSE /\ en_out.w = (IF Rounded(en_size.w, upscale_factor) <= max_size
                        THEN Rounded(en_size.w, upscale_factor) ELSE max_size)
         /\ en_out.h = (IF Rounded(en_size.h, upscale_factor) <= max_size
                        THEN Rounded(en_size.h, upscale_factor) ELSE max_size)

\* C22 (amended): with a factor <= 1.0 the size is unchanged; with a larger
\* factor each axis is original x factor with its fraction dropped when
\* that is at most max_size and max_size when it is more.
C22_Truncated ==
  enPc = "done" =>
    IF upscale_factor <= 4 THEN en_out = en_size
    ELSE /\ en_out.w = (IF Truncated(en_size.w, upscale_factor) <= max_size
                        THEN Truncated(en_size.w, upscale_factor) ELSE max_size)
         /\ en_out.h = (IF Truncated(en_size.h, upscale_factor) <= max_size
                        THEN Truncated(en_size.h, upscale_factor) ELSE max_size)

\* a 1 x 4 image enhanced by 1.75 under a cap of 5: the width 1.75 is cut
\* to 1, the height 7 is capped at 5
C22_Witness ==
  /\ enPc = "done" /\ en_size = [w |-> 1, h |-> 4] /\ upscale_factor = 7 /\ max_size = 5
  /\ en_out = [w |-> 1, h |-> 5]

\* ---- C23 ----
\* C23: no dimension of the image the enhancer returns is smaller than
\* that dimension of its input.
C23_NeverShrinks ==
  enPc = "done" => en_out.w >= en_size.w /\ en_out.h >= en_size.h

\* ---- C24 ----
Opaque(out) == {c \in DOMAIN out : out[c].alpha = 255}

\* C24: the output has the pixels of the input; every alpha is 0 or 255,
\* the colour is the original one where alpha is 255 and black where it is
\* 0; with dilation enabled every pixel classified sure or probable
\* foreground has alpha 255.
C24_MaskedOutput ==
  fgPc = "done" =>
    /\ DOMAIN fg_out = DOMAIN np_img
    /\ \A c \in DOMAIN fg_out :
         /\ fg_out[c].alpha \in {0, 255}
         /\ fg_out[c].alpha = 255 => fg_out[c].rgb = np_img[c]
         /\ fg_out[c].alpha = 0 => fg_out[c].rgb = <<0, 0, 0>>
    /\ dilation_iterations > 0 =>
         {c \in Cells : fg_mask[c] \in {"GC_FGD", "GC_PR_FGD"}} \subseteq Opaque(fg_out)

\* one probable-foreground pixel in a corner, one dilation: the pixel and
\* its three neighbours are opaque, the other pixels are transparent
C24_Witness ==
  /\ fgPc = "done" /\ dilation_iterations = 1
  /\ {c \in Cells : fg_mask[c] # "GC_BGD"} = {<<1, 1>>}
  /\ fg_mask[<<1, 1>>] = "GC_PR_FGD"
  /\ Opaque(fg_out) = {<<1, 1>>, <<1, 2>>, <<2, 1>>, <<2, 2>>}

\* ---- C28 ----
\* C28: in a run that resolves the input and then fetches the metadata,
\* started through fetch_product_assets with a call-level cookie or
\* through the command line with an explicit cookie, the metadata requests
\* carry the cookie of the redirect and page requests of that run.
C28_SharedCredential ==
  (entry \in {"fetch_product_assets", "cli"} /\ NonBlank(cookies_arg)) =>
    \A i, j \in 1..Len(requests) :
      (requests[i].step # "metadata" /\ requests[j].step = "metadata") =>
        requests[j].headers.Cookie = requests[i].headers.Cookie

\* the same, for fetch_product_assets alone
C28_FetchProductAssets ==
  entry = "fetch_product_assets" => C28_SharedCredential


\* ---- C25 ----
\* the page GET has answered with a page
PageAnswered ==
  /\ StepAnswers("page") # <<>>
  /\ StepAnswers("page")[Len(StepAnswers("page"))].ok

\* the snippet quoted at the end of the message of the run
QuotedSnippet ==
  SubSeq(outcome.msg, Len(MsgNoProductId) + Len(final_url) + Len(MsgSnippet) + 1,
         Len(outcome.msg))
NonSpaceAt(s) == SelectSeq([i \in 1..Len(s) |-> i], LAMBDA i : s[i] \notin HtmlSpace)

\* the snippet is the start of the page with its whitespace collapsed: no
\* more than 300 characters; the characters of the first 300 of the page
\* that are not whitespace, in their order; one space between two of them
\* exactly where the page has whitespace between them; nothing else
IsSnippetOf(snip, page) ==
  LET inSnip == NonSpaceAt(snip)
      inPage == NonSpaceAt(HeadOf(page))
  IN  /\ Len(snip) <= SnippetLen
      /\ Len(inSnip) = Len(inPage)
      /\ \A k \in 1..Len(inSnip) : snip[inSnip[k]] = page[inPage[k]]
      /\ \A i \in 1..Len(snip) :
           snip[i] \in HtmlSpace =>
             /\ snip[i] = " "
             /\ 1 < i /\ i < Len(snip)
             /\ snip[i + 1] \notin HtmlSpace
      /\ \A k \in 1..(Len(inSnip) - 1) :
           (inSnip[k + 1] > inSnip[k] + 1) <=> (inPage[k + 1] > inPage[k] + 1)

\* C25: after the page GET the query and the path of the landed URL are
\* tried before the body markers, so an id in the landed URL wins over a
\* body marker; final_url is the landed URL; when nothing matches, the
\* ValueError names the landed URL and quotes the whitespace-collapsed
\* first 300 characters of the page
C25_LandedUrlFirst ==
  PageAnswered =>
    /\ final_url = response_url
    /\ IF _extract_product_id_from_query(final_url) # None
       THEN product_id = _extract_product_id_from_query(final_url) /\ source = "query"
       ELSE IF _extract_product_id(final_url) # None
       THEN product_id = _extract_product_id(final_url) /\ source = "url"
       ELSE IF _extract_product_id_from_html(html) # None
       THEN product_id = _extract_product_id_from_html(html) /\ source = "html"
       ELSE /\ product_id = None
            /\ outcome.kind = "raise" /\ outcome.type = "ValueError"
            /\ SubSeq(outcome.msg, 1, Len(MsgNoProductId) + Len(final_url) + Len(MsgSnippet))
                 = MsgNoProductId \o final_url \o MsgSnippet
            /\ IsSnippetOf(QuotedSnippet, html)

\* the page GET was redirected to a URL with an id in its path and the page
\* carries a marker with another id
C25_Witness ==
  /\ PageAnswered
  /\ det_url # None /\ det_url[1] # final_url
  /\ _extract_product_id_from_html(html) # None
  /\ _extract_product_id_from_html(html) # product_id
  /\ source = "url"

\* nothing matched and the long page was cut
C25_SnippetWitness ==
  /\ PageAnswered
  /\ outcome.kind = "raise" /\ outcome.type = "ValueError"
  /\ html = LongPage
  /\ Len(QuotedSnippet) < Len(html)

\* ---- C26 ----
ResolverSteps == {"redirect", "page"}

\* a GET of the resolver was answered with a failure
ResolverFailed ==
  \E i \in 1..Len(responses) : responses[i].step \in ResolverSteps /\ ~responses[i].ok

\* the requests of a run of parse_input_to_product: one redirect GET iff
\* the normalized URL is a short link (a URL that is not one is used
\* unchanged), then at most one page GET; a failed GET ends the run with
\* the HTTP error and no further request; the client the call created is
\* closed at every exit, the one of the caller never
C26_TwoRequests ==
  /\ Len(StepGets("redirect")) <= 1 /\ Len(StepGets("page")) <= 1
  /\ \A i, j \in 1..Len(requests) :
       (requests[i].step = "redirect" /\ requests[j].step = "page") => i < j
  /\ normalized_url = <<>> => (StepGets("redirect") = <<>> /\ StepGets("page") = <<>>)
  /\ normalized_url # <<>> =>
       /\ (StepGets("redirect") # <<>>) <=> _is_short_link(normalized_url)
       /\ StepGets("redirect") # <<>> => StepGets("redirect")[1].url = normalized_url
       /\ ~_is_short_link(normalized_url) => det_url = Some(normalized_url)
  /\ ResolverFailed =>
       /\ ~responses[Len(responses)].ok
       /\ responses[Len(responses)].step \in ResolverSteps
       /\ \A i \in 1..(Len(responses) - 1) : responses[i].ok
       /\ Len(requests) = Len(responses)
       /\ pc = "done" /\ outcome.kind = "raise"
       /\ outcome.type \in {"HTTPStatusError", "TransportError"}
  /\ pc \notin {"await_redirect", "await_page"} => client_open = client_given
  /\ pc \in {"await_redirect", "await_page"} => client_open

\* C26: a run of parse_input_to_product issues at most two requests, in
\* this order: one redirect-following GET iff the normalized URL is a short
\* link, then at most one page GET; a failure propagates with no retry and
\* no further request; only a client the call created is closed
C26_RedirectFollowing ==
  /\ C26_TwoRequests
  /\ StepGets("redirect") # <<>> => follow_redirects

\* C26 for the client the call creates itself
C26_OwnClient ==
  /\ C26_TwoRequests
  /\ (StepGets("redirect") # <<>> /\ ~client_given) => follow_redirects

\* a short link resolved and its page fetched with a client of the caller
C26_Reached ==
  /\ client_given /\ pc = "done" /\ client_open
  /\ Len(StepGets("redirect")) = 1 /\ Len(StepGets("page")) = 1

====
